---- MODULE Spec2Model ----
(***************************************************************************)
(* Model of the stack-trace grouping enhancement engine of ophio           *)
(* (rust/src/enhancers).  Strings that the code inspects character by      *)
(* character (patterns, encoded matchers, field values) are sequences of   *)
(* one-character strings.  Option<T> is a sequence of length 0 (None) or   *)
(* 1 (Some).                                                               *)
(***************************************************************************)
EXTENDS Integers, Sequences, FiniteSets, TLC

VARIABLES
    pc,               \* position of the caller: which operation ran last
    enh,              \* the Enhancements value (all/modifier/updater rules)
    frames,           \* the frame list handed to the engine
    exception_data,   \* the ExceptionData handed to the modifier pass
    components,       \* the component list handed to the updater pass
    stacktrace_state, \* the StacktraceState returned by the updater pass
    log,              \* history: per rule of the last modifier pass
    prev_frames,      \* history: the frame list before the last modifier pass
    inp,              \* input of the pure function under check
    out,              \* its result
    cache,            \* the rule cache and the regex cache of the parser
    pool              \* the KetamaPool

vars == <<pc, enh, frames, exception_data, components, stacktrace_state,
          log, prev_frames, inp, out, cache, pool>>

\* ------------------------------------------------------------------ bounds

MaxFrames == 2

MaxActions == 2

MaxIdemFrames == 3

MaxSliceLen == 3

MaxUpdActions == 2

MaxComponents == 3

MaxVarValue == 2

\* ----------------------------------------------------------------- options

None == <<>>

Some(x) == <<x>>

IsSome(o) == Len(o) = 1

Unwrap(o) == o[1]

\* `let x = v;` followed by the rest of a function body, K
Bind(v, K(_)) == K(v)

\* an unset flag read as true
UnwrapOrTrue(o) == IF IsSome(o) THEN o[1] ELSE TRUE

\* Option<bool>::unwrap_or_default
UnwrapOrFalse(o) == IF IsSome(o) THEN o[1] ELSE FALSE

Range0(n) == 0 .. (n - 1)

\* 0-based access to a sequence, as slices are indexed in the code
At(s, i) == s[i + 1]

\* ----------------------------------------------------------------- strings

S_native == <<"n", "a", "t", "i", "v", "e">>

S_javascript == <<"j", "a", "v", "a", "s", "c", "r", "i", "p", "t">>

S_other == <<"o", "t", "h", "e", "r">>

S_all == <<"a", "l", "l">>

S_unknown == <<"<", "u", "n", "k", "n", "o", "w", "n", ">">>

S_yes == <<"y", "e", "s">>

S_no == <<"n", "o">>

S_true == <<"t", "r", "u", "e">>

S_false == <<"f", "a", "l", "s", "e">>

RECURSIVE Concat(_)
Concat(ss) == IF ss = <<>> THEN <<>> ELSE Head(ss) \o Concat(Tail(ss))

StartsWith(s, p) == Len(s) >= Len(p) /\ SubSeq(s, 1, Len(p)) = p

EndsWith(s, p) == Len(s) >= Len(p) /\ SubSeq(s, Len(s) - Len(p) + 1, Len(s)) = p

\* str::split(sep): the pieces between occurrences of the character sep
RECURSIVE SplitAcc(_, _, _)
SplitAcc(s, sep, cur) ==
    IF s = <<>> THEN <<cur>>
    ELSE IF Head(s) = sep THEN <<cur>> \o SplitAcc(Tail(s), sep, <<>>)
    ELSE SplitAcc(Tail(s), sep, Append(cur, Head(s)))

Split(s, sep) == SplitAcc(s, sep, <<>>)

\* ASCII case folding on the letters the model uses in both cases
Lower(c) ==
    CASE c = "T" -> "t"
      [] c = "E" -> "e"
      [] c = "S" -> "s"
      [] OTHER -> c

\* -------------------------------------------------------------------- globs

\* globset's parser: the token list of a glob.  `**` is recursive only as a
\* whole path component (prefix `**/`, suffix `/**`, infix `/**/`).
RECURSIVE GlobTokens(_, _)
GlobTokens(pat, toks) ==
    IF pat = <<>> THEN toks
    ELSE IF Head(pat) = "?" THEN GlobTokens(Tail(pat), Append(toks, [t |-> "Any"]))
    ELSE IF Head(pat) = "*" THEN
        IF Len(pat) >= 2 /\ pat[2] = "*" THEN
            LET rest == SubSeq(pat, 3, Len(pat)) IN
            IF toks = <<>> THEN
                IF rest = <<>> THEN Append(toks, [t |-> "RecursivePrefix"])
                ELSE IF Head(rest) = "/"
                    THEN GlobTokens(Tail(rest), Append(toks, [t |-> "RecursivePrefix"]))
                ELSE GlobTokens(rest, toks \o <<[t |-> "ZeroOrMore"], [t |-> "ZeroOrMore"]>>)
            ELSE IF toks[Len(toks)] # [t |-> "Literal", c |-> "/"] THEN
                GlobTokens(rest, toks \o <<[t |-> "ZeroOrMore"], [t |-> "ZeroOrMore"]>>)
            ELSE IF rest = <<>> THEN
                Append(SubSeq(toks, 1, Len(toks) - 1), [t |-> "RecursiveSuffix"])
            ELSE IF Head(rest) = "/" THEN
                GlobTokens(Tail(rest),
                           Append(SubSeq(toks, 1, Len(toks) - 1), [t |-> "RecursiveZeroOrMore"]))
            ELSE GlobTokens(rest, toks \o <<[t |-> "ZeroOrMore"], [t |-> "ZeroOrMore"]>>)
        ELSE GlobTokens(Tail(pat), Append(toks, [t |-> "ZeroOrMore"]))
    ELSE GlobTokens(Tail(pat), Append(toks, [t |-> "Literal", c |-> Head(pat)]))

\* the anchored regex globset builds from the tokens, run on the value
RECURSIVE TokensMatch(_, _, _)
TokensMatch(toks, v, sep) ==
    IF toks = <<>> THEN v = <<>>
    ELSE
        LET tk == Head(toks)
            rest == Tail(toks)
        IN
        CASE tk.t = "Literal" ->
                /\ v # <<>>
                /\ Lower(Head(v)) = Lower(tk.c)
                /\ TokensMatch(rest, Tail(v), sep)
          [] tk.t = "Any" ->
                /\ v # <<>>
                /\ (sep => Head(v) # "/")
                /\ TokensMatch(rest, Tail(v), sep)
          [] tk.t = "ZeroOrMore" ->
                \E k \in 0 .. Len(v) :
                    /\ sep => \A j \in 1 .. k : v[j] # "/"
                    /\ TokensMatch(rest, SubSeq(v, k + 1, Len(v)), sep)
          [] tk.t = "RecursivePrefix" ->
                \* (?:/?|.*/)
                \/ TokensMatch(rest, v, sep)
                \/ \E k \in 1 .. Len(v) :
                    /\ v[k] = "/"
                    /\ TokensMatch(rest, SubSeq(v, k + 1, Len(v)), sep)
          [] tk.t = "RecursiveSuffix" ->
                \* /.*
                /\ v # <<>>
                /\ Head(v) = "/"
                /\ \E k \in 1 .. Len(v) : TokensMatch(rest, SubSeq(v, k + 1, Len(v)), sep)
          [] tk.t = "RecursiveZeroOrMore" ->
                \* (?:/|/.*/)
                /\ v # <<>>
                /\ Head(v) = "/"
                /\ \E k \in 1 .. Len(v) :
                    /\ v[k] = "/"
                    /\ TokensMatch(rest, SubSeq(v, k + 1, Len(v)), sep)

\* str::replace('\\', "/")
ReplaceBackslash(s) == [i \in 1 .. Len(s) |-> IF s[i] = "\\" THEN "/" ELSE s[i]]

\* translate_pattern: the compiled pattern of a matcher
translate_pattern(pat, is_path_matcher) ==
    [tokens |-> GlobTokens(IF is_path_matcher THEN ReplaceBackslash(pat) ELSE pat, <<>>),
     literal_separator |-> is_path_matcher]

\* Regex::is_match on the bytes of a value
is_match(pattern, value) == TokensMatch(pattern.tokens, value, pattern.literal_separator)

\* ------------------------------------------------------------------- frames

\* Frame: every string attribute is optional; in_app is tri-state
MkFrame(category, family, function, in_app) ==
    [category |-> category, family |-> family, function |-> function,
     module |-> None, package |-> None, path |-> None,
     in_app |-> in_app, orig_in_app |-> None, in_app_last_changed |-> None]

\* Frame::get_field
get_field(frame, field) ==
    CASE field = "Category" -> frame.category
      [] field = "Family" -> frame.family
      [] field = "Function" -> frame.function
      [] field = "Module" -> frame.module
      [] field = "Package" -> frame.package
      [] field = "Path" -> frame.path

\* ----------------------------------------------------------------- matchers

\* FrameMatcherInner::new_field
new_field(field, path_like, pattern) ==
    [kind |-> "Field", field |-> field, path_like |-> path_like,
     pattern |-> translate_pattern(pattern, path_like)]

\* FrameMatcherInner::new_family: the loop over families.split(',')
RECURSIVE FamilyLoop(_, _, _)
FamilyLoop(parts, native, javascript) ==
    IF parts = <<>> THEN [kind |-> "Family", native |-> native, javascript |-> javascript]
    ELSE IF Head(parts) = S_native THEN FamilyLoop(Tail(parts), TRUE, javascript)
    ELSE IF Head(parts) = S_javascript THEN FamilyLoop(Tail(parts), native, TRUE)
    ELSE IF Head(parts) = S_all THEN [kind |-> "Family", native |-> TRUE, javascript |-> TRUE]
    ELSE FamilyLoop(Tail(parts), native, javascript)

new_family(families) == FamilyLoop(Split(families, ","), FALSE, FALSE)

\* FrameMatcherInner::new_in_app: Ok(matcher) or Err
new_in_app(expected) ==
    IF expected \in {<<"1">>, S_true, S_yes}
        THEN [ok |-> TRUE, inner |-> [kind |-> "InApp", expected |-> TRUE]]
    ELSE IF expected \in {<<"0">>, S_false, S_no}
        THEN [ok |-> TRUE, inner |-> [kind |-> "InApp", expected |-> FALSE]]
    ELSE [ok |-> FALSE]

\* a path-like field matched on the value as it is only
InnerMatchesFrameAsIs(inner, frame) ==
    CASE inner.kind = "Field" ->
            LET value == get_field(frame, inner.field) IN
            IF ~IsSome(value) THEN FALSE
            ELSE is_match(inner.pattern, Unwrap(value))
      [] inner.kind = "Family" ->
            LET value == get_field(frame, "Family") IN
            IF ~IsSome(value) THEN FALSE
            ELSE IF Unwrap(value) = S_native THEN inner.native
            ELSE IF Unwrap(value) = S_javascript THEN inner.javascript
            ELSE FALSE
      [] inner.kind = "InApp" -> UnwrapOrFalse(frame.in_app) = inner.expected

\* FrameMatcherInner::matches_frame
InnerMatchesFrame(inner, frame) ==
    CASE inner.kind = "Field" ->
            LET value == get_field(frame, inner.field) IN
            IF ~IsSome(value) THEN FALSE
            ELSE IF is_match(inner.pattern, Unwrap(value)) THEN TRUE
            ELSE IF inner.path_like /\ ~StartsWith(Unwrap(value), <<"/">>)
                THEN is_match(inner.pattern, <<"/">> \o Unwrap(value))
            ELSE FALSE
      [] inner.kind = "Family" ->
            LET value == get_field(frame, "Family") IN
            IF ~IsSome(value) THEN FALSE
            ELSE IF Unwrap(value) = S_native THEN inner.native
            ELSE IF Unwrap(value) = S_javascript THEN inner.javascript
            ELSE FALSE
      [] inner.kind = "InApp" -> UnwrapOrFalse(frame.in_app) = inner.expected

\* Families: a u8 bitfield, held as the set of its set bits
BITFIELD_OTHER == {0}

BITFIELD_NATIVE == {1}

BITFIELD_JAVASCRIPT == {2}

BITFIELD_ALL == 0 .. 7

\* Families::new
FamiliesNew(families) ==
    LET parts == Split(families, ",") IN
    UNION {CASE parts[k] = S_other -> BITFIELD_OTHER
             [] parts[k] = S_native -> BITFIELD_NATIVE
             [] parts[k] = S_javascript -> BITFIELD_JAVASCRIPT
             [] parts[k] = S_all -> BITFIELD_ALL
             [] OTHER -> {} : k \in 1 .. Len(parts)}

\* Families::matches
FamiliesMatches(self, other) == (self \cap other) # {}

\* the negation applied before the bounds are checked
matches_frame_negate_first(m, frs, idx) ==
    LET shifted == CASE m.frame_offset = "Caller" -> idx - 1
                     [] m.frame_offset = "Callee" -> idx + 1
                     [] m.frame_offset = "None" -> idx
    IN m.negated # (/\ shifted >= 0
                    /\ shifted < Len(frs)
                    /\ InnerMatchesFrame(m.inner, At(frs, shifted)))

\* FrameMatcher::matches_frame: offset, bounds, then negation
OffsetIdx(frame_offset, idx) ==
    CASE frame_offset = "Caller" -> IF idx >= 1 THEN Some(idx - 1) ELSE None
      [] frame_offset = "Callee" -> Some(idx + 1)
      [] frame_offset = "None" -> Some(idx)

matches_frame(m, frs, idx) ==
    LET shifted == OffsetIdx(m.frame_offset, idx) IN
    IF ~IsSome(shifted) THEN FALSE
    ELSE IF Unwrap(shifted) >= Len(frs) THEN FALSE
    ELSE m.negated # InnerMatchesFrame(m.inner, At(frs, Unwrap(shifted)))

\* an exception matcher that never matches a missing attribute
matches_exception_present_only(m, exc) ==
    LET value == CASE m.ty = "Type" -> exc.ty
                   [] m.ty = "Value" -> exc.value
                   [] m.ty = "Mechanism" -> exc.mechanism
    IN IF IsSome(value) THEN m.negated # is_match(m.pattern, Unwrap(value)) ELSE FALSE

\* ExceptionMatcher::matches_exception
matches_exception(m, exc) ==
    LET value == CASE m.ty = "Type" -> exc.ty
                   [] m.ty = "Value" -> exc.value
                   [] m.ty = "Mechanism" -> exc.mechanism
        bytes == IF IsSome(value) THEN Unwrap(value) ELSE S_unknown
    IN m.negated # is_match(m.pattern, bytes)

\* Matcher::new_frame
new_frame(negated, frame_offset, inner, raw_pattern) ==
    [ok |-> TRUE,
     m |-> [cls |-> "Frame", negated |-> negated, frame_offset |-> frame_offset,
            inner |-> inner, raw_pattern |-> raw_pattern]]

\* ExceptionMatcher::new_type / new_value / new_mechanism
new_exception(negated, ty, raw_pattern) ==
    [ok |-> TRUE,
     m |-> [cls |-> "Exception", negated |-> negated, ty |-> ty,
            pattern |-> translate_pattern(raw_pattern, FALSE), raw_pattern |-> raw_pattern]]

\* Matcher::new: Ok(matcher) or Err for an unknown name or a bad app value
MatcherNew(negated, matcher_type, argument, frame_offset) ==
    CASE matcher_type \in {"stack.module", "module"} ->
            new_frame(negated, frame_offset, new_field("Module", FALSE, argument), argument)
      [] matcher_type \in {"stack.function", "function"} ->
            new_frame(negated, frame_offset, new_field("Function", FALSE, argument), argument)
      [] matcher_type = "category" ->
            new_frame(negated, frame_offset, new_field("Category", FALSE, argument), argument)
      [] matcher_type \in {"stack.abs_path", "path"} ->
            new_frame(negated, frame_offset, new_field("Path", TRUE, argument), argument)
      [] matcher_type \in {"stack.package", "package"} ->
            new_frame(negated, frame_offset, new_field("Package", TRUE, argument), argument)
      [] matcher_type = "family" ->
            new_frame(negated, frame_offset, new_family(argument), argument)
      [] matcher_type = "app" ->
            IF new_in_app(argument).ok
                THEN new_frame(negated, frame_offset, new_in_app(argument).inner, argument)
            ELSE [ok |-> FALSE]
      [] matcher_type \in {"error.type", "type"} -> new_exception(negated, "Type", argument)
      [] matcher_type \in {"error.value", "value"} -> new_exception(negated, "Value", argument)
      [] matcher_type \in {"error.mechanism", "mechanism"} ->
            new_exception(negated, "Mechanism", argument)
      [] OTHER -> [ok |-> FALSE]

\* ------------------------------------------------------------------ actions

\* Action::Flag(FlagAction { flag, ty, range }); range is None, Up or Down
FlagAction(flag, ty, range) == [kind |-> "Flag", flag |-> flag, ty |-> ty, range |-> range]

\* Action::Var(VarAction::MinFrames / MaxFrames / InvertStacktrace / Category)
VarInt(var, n) == [kind |-> "Var", var |-> var, int |-> n, bool |-> FALSE, str |-> <<>>]

VarBool(b) == [kind |-> "Var", var |-> "InvertStacktrace", int |-> 0, bool |-> b, str |-> <<>>]

VarCategory(s) == [kind |-> "Var", var |-> "Category", int |-> 0, bool |-> FALSE, str |-> s]

\* the Up range taken from idx instead of idx + 1
slice_from_idx(range, n, idx) ==
    CASE range = "Up" -> IF idx <= n THEN idx .. (n - 1) ELSE {}
      [] range = "Down" -> IF idx <= n THEN 0 .. (idx - 1) ELSE {}
      [] range = "None" -> IF idx + 1 <= n THEN {idx} ELSE {}

\* FlagAction::slice_to_range_mut: the 0-based indices of the selected items.
\* slice::get_mut gives None, hence nothing, when the range leaves the slice.
slice_to_range_mut(range, n, idx) ==
    CASE range = "Up" -> IF idx + 1 <= n THEN (idx + 1) .. (n - 1) ELSE {}
      [] range = "Down" -> IF idx <= n THEN 0 .. (idx - 1) ELSE {}
      [] range = "None" -> IF idx + 1 <= n THEN {idx} ELSE {}

\* a flag action of any type writing in_app
FlagApplyModificationsAnyType(a, frs, idx) ==
    LET sel == slice_to_range_mut(a.range, Len(frs), idx) IN
    [i \in 1 .. Len(frs) |->
        IF (i - 1) \in sel THEN [frs[i] EXCEPT !.in_app = Some(a.flag)] ELSE frs[i]]

\* FlagAction::apply_modifications_to_frame
FlagApplyModifications(a, frs, idx) ==
    IF a.ty = "App"
        THEN LET sel == slice_to_range_mut(a.range, Len(frs), idx) IN
             [i \in 1 .. Len(frs) |->
                 IF (i - 1) \in sel THEN [frs[i] EXCEPT !.in_app = Some(a.flag)] ELSE frs[i]]
    ELSE frs

\* the category written one frame too far
VarApplyModificationsNext(a, frs, idx) ==
    IF a.var = "Category" /\ idx + 1 < Len(frs)
        THEN [frs EXCEPT ![idx + 2].category = Some(a.str)]
    ELSE frs

\* VarAction::apply_modifications_to_frame
VarApplyModifications(a, frs, idx) ==
    IF a.var = "Category" /\ idx < Len(frs)
        THEN [frs EXCEPT ![idx + 1].category = Some(a.str)]
    ELSE frs

\* Action::apply_modifications_to_frame
ActionApplyModifications(a, frs, idx) ==
    IF a.kind = "Flag" THEN FlagApplyModifications(a, frs, idx)
    ELSE VarApplyModifications(a, frs, idx)

\* Action::is_modifier
is_modifier(a) == (a.kind = "Flag" /\ a.ty = "App") \/ (a.kind = "Var" /\ a.var = "Category")

\* Action::is_updater
is_updater(a) == ~(a.kind = "Var" /\ a.var = "Category")

\* -------------------------------------------------------------------- rules

\* Rule::new: the matchers are split, in order, into frame and exception matchers
RuleNew(matchers, actions) ==
    [frame_matchers |-> SelectSeq(matchers, LAMBDA m : m.cls = "Frame"),
     exception_matchers |-> SelectSeq(matchers, LAMBDA m : m.cls = "Exception"),
     actions |-> actions]

\* Rule::matches_exception
RuleMatchesException(rule, exc) ==
    \A k \in 1 .. Len(rule.exception_matchers) :
        matches_exception(rule.exception_matchers[k], exc)

\* Rule::matches_frame
RuleMatchesFrame(rule, frs, idx) ==
    \A k \in 1 .. Len(rule.frame_matchers) : matches_frame(rule.frame_matchers[k], frs, idx)

\* Rule::has_modifier_action
has_modifier_action(rule) == \E k \in 1 .. Len(rule.actions) : is_modifier(rule.actions[k])

\* Rule::has_updater_action
has_updater_action(rule) == \E k \in 1 .. Len(rule.actions) : is_updater(rule.actions[k])

\* Rule::apply_modifications_to_frame: every action, in declaration order
RECURSIVE RuleApplyModifications(_, _, _)
RuleApplyModifications(actions, frs, idx) ==
    IF actions = <<>> THEN frs
    ELSE RuleApplyModifications(Tail(actions), ActionApplyModifications(Head(actions), frs, idx), idx)

\* ------------------------------------------------------------- enhancements

\* Enhancements::new
EnhancementsNew(all_rules) ==
    [all_rules |-> all_rules,
     modifier_rules |-> SelectSeq(all_rules, has_modifier_action),
     updater_rules |-> SelectSeq(all_rules, has_updater_action)]

\* the first loop of a modifier rule: the indices, ascending, where it matches
MatchingFrames(rule, frs) ==
    LET RECURSIVE Collect(_)
        Collect(idx) ==
            IF idx >= Len(frs) THEN <<>>
            ELSE (IF RuleMatchesFrame(rule, frs, idx) THEN <<idx>> ELSE <<>>) \o Collect(idx + 1)
    IN Collect(0)

\* the second loop: the rule's actions at every collected index, in order
RECURSIVE ApplyAtAll(_, _, _)
ApplyAtAll(rule, frs, idxs) ==
    IF idxs = <<>> THEN frs
    ELSE ApplyAtAll(rule, RuleApplyModifications(rule.actions, frs, Head(idxs)), Tail(idxs))

\* one fused loop: match at idx on the frames as already written, then apply
RECURSIVE FusedLoop(_, _, _, _)
FusedLoop(rule, frs, idx, applied) ==
    IF idx >= Len(frs) THEN [frames |-> frs, applied |-> applied]
    ELSE IF RuleMatchesFrame(rule, frs, idx)
        THEN FusedLoop(rule, RuleApplyModifications(rule.actions, frs, idx), idx + 1,
                       Append(applied, idx))
    ELSE FusedLoop(rule, frs, idx + 1, applied)

ApplyRuleFused(rule, frs) == FusedLoop(rule, frs, 0, <<>>)

\* the body of the loop over modifier rules for one eligible rule:
\* collect every matching index first, then apply; also reports the indices
ApplyRule(rule, frs) ==
    LET matching_frames == MatchingFrames(rule, frs) IN
    [frames |-> ApplyAtAll(rule, frs, matching_frames), applied |-> matching_frames]

\* Enhancements::apply_modifications_to_frames; the result carries, for every
\* eligible rule, the frames it started from and the indices it was applied at
RECURSIVE ModifierLoop(_, _, _, _)
ModifierLoop(rules, frs, exc, lg) ==
    IF rules = <<>> THEN [frames |-> frs, log |-> lg]
    ELSE IF ~RuleMatchesException(Head(rules), exc) THEN ModifierLoop(Tail(rules), frs, exc, lg)
    ELSE LET r == ApplyRule(Head(rules), frs) IN
         ModifierLoop(Tail(rules), r.frames, exc,
                      Append(lg, [rule |-> Head(rules), before |-> frs,
                                  applied |-> r.applied, after |-> r.frames]))

apply_modifications_to_frames(e, frs, exc) == ModifierLoop(e.modifier_rules, frs, exc, <<>>)

\* ------------------------------------------------------ compact encoding

\* FLAG_ACTION_TYPES, in the order of the encoded type index
FLAG_ACTION_TYPES == <<"Group", "App", "Prefix", "Sentinel">>

\* FLAG_ACTION_VALUES, in the order of the encoded value index
FLAG_ACTION_VALUES ==
    <<[flag |-> TRUE, range |-> "None"], [flag |-> TRUE, range |-> "Up"],
      [flag |-> TRUE, range |-> "Down"], [flag |-> FALSE, range |-> "None"],
      [flag |-> FALSE, range |-> "Up"], [flag |-> FALSE, range |-> "Down"]>>

FLAG_ACTION_VALUE_OFFSET == 8

FLAG_ACTION_TYPE_MASK == 15

\* 2^n
RECURSIVE Pow2(_)
Pow2(n) == IF n = 0 THEN 1 ELSE 2 * Pow2(n - 1)

\* EncodedAction::FlagAction(n) and EncodedAction::VarAction((name, value))
EncFlag(n) == [kind |-> "FlagAction", n |-> n]

EncVar(name, vkind, int, bool, str) ==
    [kind |-> "VarAction", name |-> name, vkind |-> vkind, int |-> int, bool |-> bool, str |-> str]

\* into_action reading two bits of the value index
into_action_two_bits(e) ==
    IF e.kind = "FlagAction" THEN
        LET ti == e.n % (FLAG_ACTION_TYPE_MASK + 1)
            vi == (e.n \div Pow2(FLAG_ACTION_VALUE_OFFSET)) % 4
        IN IF ti >= Len(FLAG_ACTION_TYPES) THEN [ok |-> FALSE]
           ELSE [ok |-> TRUE,
                 action |-> FlagAction(At(FLAG_ACTION_VALUES, vi).flag, At(FLAG_ACTION_TYPES, ti),
                                       At(FLAG_ACTION_VALUES, vi).range)]
    ELSE IF e.name = "min-frames" /\ e.vkind = "Int"
        THEN [ok |-> TRUE, action |-> VarInt("MinFrames", e.int)]
    ELSE IF e.name = "max-frames" /\ e.vkind = "Int"
        THEN [ok |-> TRUE, action |-> VarInt("MaxFrames", e.int)]
    ELSE IF e.name = "invert-stacktrace" /\ e.vkind = "Bool"
        THEN [ok |-> TRUE, action |-> VarBool(e.bool)]
    ELSE IF e.name = "category" /\ e.vkind = "Str"
        THEN [ok |-> TRUE, action |-> VarCategory(e.str)]
    ELSE [ok |-> FALSE]

\* EncodedAction::into_action: Ok(action) or Err
into_action(e) ==
    IF e.kind = "FlagAction" THEN
        LET ti == e.n % (FLAG_ACTION_TYPE_MASK + 1)
            vi == e.n \div Pow2(FLAG_ACTION_VALUE_OFFSET)
        IN IF ti >= Len(FLAG_ACTION_TYPES) THEN [ok |-> FALSE]
           ELSE IF vi >= Len(FLAG_ACTION_VALUES) THEN [ok |-> FALSE]
           ELSE [ok |-> TRUE,
                 action |-> FlagAction(At(FLAG_ACTION_VALUES, vi).flag, At(FLAG_ACTION_TYPES, ti),
                                       At(FLAG_ACTION_VALUES, vi).range)]
    ELSE IF e.name = "min-frames" /\ e.vkind = "Int"
        THEN [ok |-> TRUE, action |-> VarInt("MinFrames", e.int)]
    ELSE IF e.name = "max-frames" /\ e.vkind = "Int"
        THEN [ok |-> TRUE, action |-> VarInt("MaxFrames", e.int)]
    ELSE IF e.name = "invert-stacktrace" /\ e.vkind = "Bool"
        THEN [ok |-> TRUE, action |-> VarBool(e.bool)]
    ELSE IF e.name = "category" /\ e.vkind = "Str"
        THEN [ok |-> TRUE, action |-> VarCategory(e.str)]
    ELSE [ok |-> FALSE]

\* EncodedAction::from_action
from_action(a) ==
    IF a.kind = "Flag" THEN
        LET ty == CASE a.ty = "Group" -> 0
                    [] a.ty = "App" -> 1
                    [] a.ty = "Prefix" -> 2
                    [] a.ty = "Sentinel" -> 3
            flag_range == CASE a.flag /\ a.range = "None" -> 0
                            [] a.flag /\ a.range = "Up" -> 1
                            [] a.flag /\ a.range = "Down" -> 2
                            [] ~a.flag /\ a.range = "None" -> 3
                            [] ~a.flag /\ a.range = "Up" -> 4
                            [] ~a.flag /\ a.range = "Down" -> 5
        IN EncFlag(flag_range * Pow2(FLAG_ACTION_VALUE_OFFSET) + ty)
    ELSE CASE a.var = "MinFrames" -> EncVar("min-frames", "Int", a.int, FALSE, <<>>)
           [] a.var = "MaxFrames" -> EncVar("max-frames", "Int", a.int, FALSE, <<>>)
           [] a.var = "Category" -> EncVar("category", "Str", 0, FALSE, a.str)
           [] a.var = "InvertStacktrace" -> EncVar("invert-stacktrace", "Bool", 0, a.bool, <<>>)

\* the 'F' arm of into_matcher: the family names for the letters N, J and a
RECURSIVE FamilyLetters(_)
FamilyLetters(arg) ==
    IF arg = <<>> THEN <<>>
    ELSE (CASE Head(arg) = "N" -> <<",">> \o S_native
            [] Head(arg) = "J" -> <<",">> \o S_javascript
            [] Head(arg) = "a" -> <<",">> \o S_all
            [] OTHER -> <<>>) \o FamilyLetters(Tail(arg))

\* the number of bytes of a character in UTF-8, for the characters in use
Utf8Len(c) == IF c = "é" THEN 2 ELSE 1

\* str::split_at(1) panics when byte 1 is past the end of the string or
\* inside a character
SplitAt1Panics(def) == def = <<>> \/ Utf8Len(Head(def)) > 1

\* the matcher name of a tag character; `?` stands for the `_` arm, for which
\* Matcher::new fails as it does for every unknown name
TagName(tag) ==
    CASE tag = "p" -> "path" [] tag = "f" -> "function" [] tag = "m" -> "module"
      [] tag = "F" -> "family" [] tag = "P" -> "package" [] tag = "a" -> "app"
      [] tag = "t" -> "type" [] tag = "v" -> "value" [] tag = "M" -> "mechanism"
      [] tag = "c" -> "category" [] OTHER -> "?"

\* EncodedMatcher::into_matcher: Ok(matcher), Err, or the panic of split_at(1)
into_matcher(encoded) ==
    Bind(StartsWith(encoded, <<"|", "[">>) /\ EndsWith(encoded, <<"]">>), LAMBDA isCallee :
    Bind(~isCallee /\ StartsWith(encoded, <<"[">>) /\ EndsWith(encoded, <<"]", "|">>), LAMBDA isCaller :
    Bind(IF isCallee THEN "Callee" ELSE IF isCaller THEN "Caller" ELSE "None", LAMBDA frame_offset :
    Bind(IF isCallee THEN SubSeq(encoded, 3, Len(encoded) - 1)
         ELSE IF isCaller THEN SubSeq(encoded, 2, Len(encoded) - 2)
         ELSE encoded, LAMBDA def1 :
    Bind(StartsWith(def1, <<"!">>), LAMBDA negated :
    Bind(IF negated THEN Tail(def1) ELSE def1, LAMBDA def :
        IF SplitAt1Panics(def) THEN [ok |-> FALSE, panicked |-> TRUE]
        ELSE IF Head(def) = "F"
            THEN Bind(FamilyLetters(Tail(def)), LAMBDA families :
                     MatcherNew(negated, "family",
                                IF families = <<>> THEN <<>> ELSE Tail(families), frame_offset))
        ELSE MatcherNew(negated, TagName(Head(def)), Tail(def), frame_offset)))))))

\* EncodedMatcher::from_exception_matcher
from_exception_matcher(m) ==
    (IF m.negated THEN <<"!">> ELSE <<>>)
        \o <<CASE m.ty = "Type" -> "t" [] m.ty = "Value" -> "v" [] m.ty = "Mechanism" -> "M">>
        \o m.raw_pattern

\* EncodedMatcher::from_frame_matcher
from_frame_matcher(m) ==
    LET ty == CASE m.inner.kind = "Field" ->
                    (CASE m.inner.field = "Category" -> "c"
                       [] m.inner.field = "Function" -> "f"
                       [] m.inner.field = "Module" -> "m"
                       [] m.inner.field = "Package" -> "P"
                       [] m.inner.field = "Path" -> "p")
                [] m.inner.kind = "Family" -> "F"
                [] m.inner.kind = "InApp" -> "a"
    IN (CASE m.frame_offset = "Caller" -> <<"[">>
          [] m.frame_offset = "Callee" -> <<"|", "[">>
          [] m.frame_offset = "None" -> <<>>)
       \o (IF m.negated THEN <<"!">> ELSE <<>>)
       \o <<ty>>
       \o m.raw_pattern
       \o (CASE m.frame_offset = "Caller" -> <<"]", "|">>
             [] m.frame_offset = "Callee" -> <<"]">>
             [] m.frame_offset = "None" -> <<>>)

\* EncodedRule::from_rule: exception matchers first, then frame matchers
from_rule(rule) ==
    [matchers |-> [k \in 1 .. Len(rule.exception_matchers) |->
                      from_exception_matcher(rule.exception_matchers[k])]
                  \o [k \in 1 .. Len(rule.frame_matchers) |->
                         from_frame_matcher(rule.frame_matchers[k])],
     actions |-> [k \in 1 .. Len(rule.actions) |-> from_action(rule.actions[k])]]

\* EncodedRule::into_rule: Ok(rule), or Err when one matcher or action fails
into_rule(encoded) ==
    LET ms == [k \in 1 .. Len(encoded.matchers) |-> into_matcher(encoded.matchers[k])]
        as == [k \in 1 .. Len(encoded.actions) |-> into_action(encoded.actions[k])]
    IN IF (\E k \in 1 .. Len(ms) : ~ms[k].ok) \/ (\E k \in 1 .. Len(as) : ~as[k].ok)
           THEN [ok |-> FALSE]
       ELSE [ok |-> TRUE,
             rule |-> RuleNew([k \in 1 .. Len(ms) |-> ms[k].m],
                              [k \in 1 .. Len(as) |-> as[k].action])]

\* -------------------------------------------------------------- updater pass

\* Component
MkComponent(contributes) ==
    [contributes |-> contributes, is_prefix_frame |-> FALSE, is_sentinel_frame |-> FALSE,
     hint |-> None]

\* a hint string: its fixed text, the number and the rule formatted into it
Hint(text, n, rule) == Some([text |-> text, n |-> n, rule |-> rule])

\* StacktraceState::default
DefaultState ==
    [max_frames |-> [value |-> 0, setter |-> None],
     min_frames |-> [value |-> 0, setter |-> None],
     invert_stacktrace |-> [value |-> FALSE, setter |-> None]]

\* the first loop of update_frame_components_contributions: the in-app hints
\* of the zipped (component, frame) pairs; frame.in_app.unwrap() may panic
SeedPanics(comps, frs) ==
    \E i \in 1 .. Len(comps) :
        /\ i <= Len(frs)
        /\ IsSome(frs[i].in_app_last_changed)
        /\ ~IsSome(frs[i].in_app)

SeedHints(comps, frs) ==
    [i \in 1 .. Len(comps) |->
        IF i <= Len(frs) /\ IsSome(frs[i].in_app_last_changed) /\ IsSome(frs[i].in_app)
            THEN [comps[i] EXCEPT !.hint =
                    Hint(IF Unwrap(frs[i].in_app) THEN "marked in-app by stack trace rule"
                         ELSE "marked out of app by stack trace rule",
                         0, frs[i].in_app_last_changed)]
        ELSE comps[i]]

\* in_app_changed looking at the frame only
in_app_changed_frame_only(a, component, frame) ==
    IsSome(frame.orig_in_app) /\ frame.orig_in_app # frame.in_app

\* FlagAction::in_app_changed
in_app_changed(a, component, frame) ==
    IF IsSome(frame.orig_in_app) THEN frame.orig_in_app # frame.in_app
    ELSE a.flag = component.contributes

\* the loop body with a group action that writes its hint on every selected
\* component
FlagUpdateOneGroupAlways(a, component, frame, rule) ==
    CASE a.ty = "Group" ->
            [component EXCEPT
                !.contributes = a.flag,
                !.hint = Hint(IF a.flag THEN "un-ignored by stack trace rule"
                              ELSE "ignored by stack trace rule", 0, Some(rule))]
      [] a.ty = "App" ->
            IF in_app_changed(a, component, frame)
                THEN [component EXCEPT
                        !.hint = Hint(IF a.flag THEN "marked in-app by stack trace rule"
                                      ELSE "marked out of app by stack trace rule", 0, Some(rule))]
            ELSE component
      [] a.ty = "Prefix" ->
            [component EXCEPT
                !.is_prefix_frame = a.flag,
                !.hint = Hint("marked as prefix frame by stack trace rule", 0, Some(rule))]
      [] a.ty = "Sentinel" ->
            [component EXCEPT
                !.is_sentinel_frame = a.flag,
                !.hint = Hint("marked as sentinel frame by stack trace rule", 0, Some(rule))]

\* the body of the loop of FlagAction::update_frame_components_contributions
FlagUpdateOne(a, component, frame, rule) ==
    CASE a.ty = "Group" ->
            IF component.contributes # a.flag
                THEN [component EXCEPT
                        !.contributes = a.flag,
                        !.hint = Hint(IF a.flag THEN "un-ignored by stack trace rule"
                                      ELSE "ignored by stack trace rule", 0, Some(rule))]
            ELSE component
      [] a.ty = "App" ->
            IF in_app_changed(a, component, frame)
                THEN [component EXCEPT
                        !.hint = Hint(IF a.flag THEN "marked in-app by stack trace rule"
                                      ELSE "marked out of app by stack trace rule", 0, Some(rule))]
            ELSE component
      [] a.ty = "Prefix" ->
            [component EXCEPT
                !.is_prefix_frame = a.flag,
                !.hint = Hint("marked as prefix frame by stack trace rule", 0, Some(rule))]
      [] a.ty = "Sentinel" ->
            [component EXCEPT
                !.is_sentinel_frame = a.flag,
                !.hint = Hint("marked as sentinel frame by stack trace rule", 0, Some(rule))]

\* FlagAction::update_frame_components_contributions: the selected components
\* zipped with the selected frames
FlagUpdateComponents(a, comps, frs, idx, rule) ==
    LET sel == slice_to_range_mut(a.range, Len(comps), idx)
                   \cap slice_to_range_mut(a.range, Len(frs), idx)
    IN [i \in 1 .. Len(comps) |->
           IF (i - 1) \in sel THEN FlagUpdateOne(a, comps[i], frs[i], rule) ELSE comps[i]]

\* Action::update_frame_components_contributions
ActionUpdateComponents(a, comps, frs, idx, rule) ==
    IF a.kind = "Flag" THEN FlagUpdateComponents(a, comps, frs, idx, rule) ELSE comps

\* Rule::update_frame_components_contributions
RECURSIVE RuleUpdateComponents(_, _, _, _, _)
RuleUpdateComponents(actions, comps, frs, idx, rule) ==
    IF actions = <<>> THEN comps
    ELSE RuleUpdateComponents(Tail(actions),
                              ActionUpdateComponents(Head(actions), comps, frs, idx, rule),
                              frs, idx, rule)

\* Action::modify_stacktrace_state
modify_stacktrace_state(a, state, rule) ==
    IF a.kind # "Var" THEN state
    ELSE CASE a.var = "Category" -> state
           [] a.var = "MinFrames" ->
                [state EXCEPT !.min_frames = [value |-> a.int, setter |-> Some(rule)]]
           [] a.var = "MaxFrames" ->
                [state EXCEPT !.max_frames = [value |-> a.int, setter |-> Some(rule)]]
           [] a.var = "InvertStacktrace" ->
                [state EXCEPT !.invert_stacktrace = [value |-> a.bool, setter |-> Some(rule)]]

\* the actions of a rule taken from the last to the first
RECURSIVE RuleModifyStateReversed(_, _, _)
RuleModifyStateReversed(actions, state, rule) ==
    IF actions = <<>> THEN state
    ELSE modify_stacktrace_state(Head(actions),
                                 RuleModifyStateReversed(Tail(actions), state, rule), rule)

\* Rule::modify_stacktrace_state
RECURSIVE RuleModifyState(_, _, _)
RuleModifyState(actions, state, rule) ==
    IF actions = <<>> THEN state
    ELSE RuleModifyState(Tail(actions), modify_stacktrace_state(Head(actions), state, rule), rule)

\* the updater loop passing over a rule whose exception matchers do not match
\* the exception data of the event, as the modifier loop does
RECURSIVE UpdaterLoopEligibleOnly(_, _, _, _, _)
UpdaterLoopEligibleOnly(rules, idx, comps, frs, state) ==
    IF rules = <<>> THEN [components |-> comps, state |-> state]
    ELSE IF idx >= Len(frs) \/ ~RuleMatchesException(Head(rules), exception_data)
        THEN UpdaterLoopEligibleOnly(Tail(rules), 0, comps, frs, state)
    ELSE IF RuleMatchesFrame(Head(rules), frs, idx)
        THEN UpdaterLoopEligibleOnly(
                 rules, idx + 1,
                 RuleUpdateComponents(Head(rules).actions, comps, frs, idx, Head(rules)),
                 frs, RuleModifyState(Head(rules).actions, state, Head(rules)))
    ELSE UpdaterLoopEligibleOnly(rules, idx + 1, comps, frs, state)

\* the loop over updater rules and, inside, over the frame indices
RECURSIVE UpdaterLoop(_, _, _, _, _)
UpdaterLoop(rules, idx, comps, frs, state) ==
    IF rules = <<>> THEN [components |-> comps, state |-> state]
    ELSE IF idx >= Len(frs) THEN UpdaterLoop(Tail(rules), 0, comps, frs, state)
    ELSE IF RuleMatchesFrame(Head(rules), frs, idx)
        THEN UpdaterLoop(rules, idx + 1,
                         RuleUpdateComponents(Head(rules).actions, comps, frs, idx, Head(rules)),
                         frs, RuleModifyState(Head(rules).actions, state, Head(rules)))
    ELSE UpdaterLoop(rules, idx + 1, comps, frs, state)

MaxFramesHint(state) ==
    Hint(IF state.max_frames.value # 1 THEN "ignored because only N frames are considered"
         ELSE "ignored because only N frame is considered",
         state.max_frames.value, state.max_frames.setter)

\* the trim counting a component only after comparing
RECURSIVE TrimLate(_, _, _, _)
TrimLate(comps, i, ignored, state) ==
    IF i < 1 THEN comps
    ELSE IF ~comps[i].contributes THEN TrimLate(comps, i - 1, ignored, state)
    ELSE IF ignored <= state.max_frames.value THEN TrimLate(comps, i - 1, ignored + 1, state)
    ELSE TrimLate([comps EXCEPT ![i].contributes = FALSE, ![i].hint = MaxFramesHint(state)],
                  i - 1, ignored + 1, state)

\* the trim walking the components from the first to the last, j the 1-based
\* position: the head is kept instead of the tail
RECURSIVE TrimFromFirst(_, _, _, _)
TrimFromFirst(comps, j, ignored, state) ==
    IF j > Len(comps) THEN comps
    ELSE IF ~comps[j].contributes THEN TrimFromFirst(comps, j + 1, ignored, state)
    ELSE IF ignored + 1 <= state.max_frames.value
        THEN TrimFromFirst(comps, j + 1, ignored + 1, state)
    ELSE TrimFromFirst([comps EXCEPT ![j].contributes = FALSE,
                                     ![j].hint = MaxFramesHint(state)],
                       j + 1, ignored + 1, state)

TrimHead(comps, i, ignored, state) == TrimFromFirst(comps, 1, ignored, state)

\* the max-frames loop: components from last to first, i the 1-based position
RECURSIVE Trim(_, _, _, _)
Trim(comps, i, ignored, state) ==
    IF i < 1 THEN comps
    ELSE IF ~comps[i].contributes THEN Trim(comps, i - 1, ignored, state)
    ELSE IF ignored + 1 <= state.max_frames.value THEN Trim(comps, i - 1, ignored + 1, state)
    ELSE Trim([comps EXCEPT ![i].contributes = FALSE, ![i].hint = MaxFramesHint(state)],
              i - 1, ignored + 1, state)

\* Enhancements::update_frame_components_contributions
update_frame_components_contributions(e, comps, frs) ==
    IF SeedPanics(comps, frs) THEN [panicked |-> TRUE, components |-> comps, state |-> DefaultState]
    ELSE LET r == UpdaterLoop(e.updater_rules, 0, SeedHints(comps, frs), frs, DefaultState) IN
         [panicked |-> FALSE,
          components |-> IF r.state.max_frames.value > 0
                             THEN Trim(r.components, Len(r.components), 0, r.state)
                         ELSE r.components,
          state |-> r.state]

\* --------------------------------------------------------------- the caches

\* the largest cache size
MaxCacheSize == 2

\* LruCache::new(cap): the entries, least recently used first
LruNew(cap) == [cap |-> cap, items |-> <<>>]

LruIndex(lru, key) ==
    IF \E i \in 1 .. Len(lru.items) : lru.items[i].k = key
        THEN CHOOSE i \in 1 .. Len(lru.items) : lru.items[i].k = key
    ELSE 0

RemoveAt(s, i) == SubSeq(s, 1, i - 1) \o SubSeq(s, i + 1, Len(s))

\* LruCache::get: the value, if any, and the cache with the entry made the
\* most recently used one
LruGet(lru, key) ==
    LET i == LruIndex(lru, key) IN
    IF i = 0 THEN [hit |-> FALSE, lru |-> lru]
    ELSE [hit |-> TRUE, v |-> lru.items[i].v,
          lru |-> [lru EXCEPT !.items = Append(RemoveAt(lru.items, i), lru.items[i])]]

\* a put that never evicts
LruPutNoEvict(lru, key, v) ==
    LET i == LruIndex(lru, key)
        kept == IF i # 0 THEN RemoveAt(lru.items, i) ELSE lru.items
    IN [lru EXCEPT !.items = Append(kept, [k |-> key, v |-> v])]

\* LruCache::put: replaces the key's entry, or evicts the least recently
\* used entry of a full cache
LruPut(lru, key, v) ==
    LET i == LruIndex(lru, key)
        kept == IF i # 0 THEN RemoveAt(lru.items, i)
                ELSE IF Len(lru.items) >= lru.cap THEN Tail(lru.items)
                ELSE lru.items
    IN [lru EXCEPT !.items = Append(kept, [k |-> key, v |-> v])]

\* Cache::new: size 0 gives no caches
CacheNew(size) ==
    [rules |-> IF size = 0 THEN None ELSE Some(LruNew(size)),
     regex |-> IF size = 0 THEN None ELSE Some(LruNew(size))]

\* GlobBuilder::build fails on a character class that is never closed
GlobBuildFails(pat) ==
    \E i \in 1 .. Len(pat) : pat[i] = "[" /\ \A j \in (i + 1) .. Len(pat) : pat[j] # "]"

\* translate_pattern as a Result: Err when the glob does not build
translate_pattern_result(pat, is_path_matcher) ==
    IF GlobBuildFails(IF is_path_matcher THEN ReplaceBackslash(pat) ELSE pat)
        THEN [ok |-> FALSE]
    ELSE [ok |-> TRUE, v |-> translate_pattern(pat, is_path_matcher)]

\* the regex cache keyed by the pattern alone
get_or_try_insert_regex_by_pattern(c, key, is_path) ==
    IF IsSome(c.regex) THEN
        Bind(LruGet(Unwrap(c.regex), key), LAMBDA g :
            IF g.hit THEN [ok |-> TRUE, v |-> g.v, cache |-> [c EXCEPT !.regex = Some(g.lru)]]
            ELSE Bind(translate_pattern_result(key, is_path), LAMBDA regex :
                     IF ~regex.ok THEN [ok |-> FALSE, cache |-> c]
                     ELSE [ok |-> TRUE, v |-> regex.v,
                           cache |-> [c EXCEPT !.regex =
                                         Some(LruPut(Unwrap(c.regex), key, regex.v))]]))
    ELSE Bind(translate_pattern_result(key, is_path), LAMBDA regex :
             IF regex.ok THEN [ok |-> TRUE, v |-> regex.v, cache |-> c]
             ELSE [ok |-> FALSE, cache |-> c])

\* Cache::get_or_try_insert_regex with f = translate_pattern: the result and
\* the cache afterwards
get_or_try_insert_regex(c, key, is_path) ==
    IF IsSome(c.regex) THEN
        Bind(LruGet(Unwrap(c.regex), <<key, is_path>>), LAMBDA g :
            IF g.hit THEN [ok |-> TRUE, v |-> g.v, cache |-> [c EXCEPT !.regex = Some(g.lru)]]
            ELSE Bind(translate_pattern_result(key, is_path), LAMBDA regex :
                     IF ~regex.ok THEN [ok |-> FALSE, cache |-> c]
                     ELSE [ok |-> TRUE, v |-> regex.v,
                           cache |-> [c EXCEPT !.regex =
                                         Some(LruPut(Unwrap(c.regex), <<key, is_path>>, regex.v))]]))
    ELSE Bind(translate_pattern_result(key, is_path), LAMBDA regex :
             IF regex.ok THEN [ok |-> TRUE, v |-> regex.v, cache |-> c]
             ELSE [ok |-> FALSE, cache |-> c])

\* Matcher::new with its cache argument: the pattern of a field or exception
\* matcher comes from the regex cache
MatcherNewWithCache(c, negated, matcher_type, argument, frame_offset) ==
    Bind(MatcherNew(negated, matcher_type, argument, frame_offset), LAMBDA made :
        IF ~made.ok THEN [ok |-> FALSE, cache |-> c]
        ELSE IF made.m.cls = "Frame" /\ made.m.inner.kind # "Field" THEN
            [ok |-> TRUE, m |-> made.m, cache |-> c]
        ELSE Bind(get_or_try_insert_regex(c, argument,
                                          made.m.cls = "Frame" /\ made.m.inner.path_like),
                  LAMBDA r :
                      IF ~r.ok THEN [ok |-> FALSE, cache |-> r.cache]
                      ELSE IF made.m.cls = "Frame"
                          THEN [ok |-> TRUE, m |-> [made.m EXCEPT !.inner.pattern = r.v],
                                cache |-> r.cache]
                      ELSE [ok |-> TRUE, m |-> [made.m EXCEPT !.pattern = r.v],
                            cache |-> r.cache]))

\* ---------------------------------------------------------- the rule parser

SpaceTab == {" ", "\t"}

Whitespace == {" ", "\t", "\r", "\n"}

Digits == {"0", "1", "2", "3", "4", "5", "6", "7", "8", "9"}

\* ident: ASCII letters and digits (those the model's texts use), `_`, `.`, `-`
IdentChars ==
    {"a", "b", "c", "d", "e", "f", "g", "h", "i", "j", "k", "l", "m", "n", "o", "p", "q",
     "r", "s", "t", "u", "v", "w", "x", "y", "z", "E", "S", "T"}
    \cup Digits \cup {"_", ".", "-"}

\* the length of the longest prefix of s whose characters are all inside cs
\* (inside = TRUE) or all outside cs (inside = FALSE)
LeadLen(s, cs, inside) ==
    CHOOSE n \in 0 .. Len(s) :
        /\ \A i \in 1 .. n : (s[i] \in cs) = inside
        /\ n = Len(s) \/ (s[n + 1] \in cs) # inside

TrailLen(s, cs) ==
    CHOOSE n \in 0 .. Len(s) :
        /\ \A i \in (Len(s) - n + 1) .. Len(s) : s[i] \in cs
        /\ n = Len(s) \/ s[Len(s) - n] \notin cs

Drop(s, n) == SubSeq(s, n + 1, Len(s))

trim_start(s) == Drop(s, LeadLen(s, Whitespace, TRUE))

trim(s) == LET t == trim_start(s) IN SubSeq(t, 1, Len(t) - TrailLen(t, Whitespace))

\* nom space0
space0(s) == Drop(s, LeadLen(s, SpaceTab, TRUE))

\* nom take_while1
take_while1(s, cs, inside) ==
    LET n == LeadLen(s, cs, inside) IN
    IF n = 0 THEN [ok |-> FALSE]
    ELSE [ok |-> TRUE, v |-> SubSeq(s, 1, n), rest |-> Drop(s, n)]

\* nom char
char1(s, c) ==
    IF s # <<>> /\ Head(s) = c THEN [ok |-> TRUE, rest |-> Tail(s)] ELSE [ok |-> FALSE]

\* nom tag
tag(s, t) == IF StartsWith(s, t) THEN [ok |-> TRUE, rest |-> Drop(s, Len(t))] ELSE [ok |-> FALSE]

\* delimited(char('"'), take_while1(..), char('"'))
delimited(s, cs, inside) ==
    IF ~char1(s, "\"").ok THEN [ok |-> FALSE]
    ELSE Bind(take_while1(Tail(s), cs, inside), LAMBDA r :
             IF r.ok /\ char1(r.rest, "\"").ok
                 THEN [ok |-> TRUE, v |-> r.v, rest |-> Tail(r.rest)]
             ELSE [ok |-> FALSE])

ident(s) == take_while1(s, IdentChars, TRUE)

\* matcher_type = alt((ident, quoted_ident))
parse_matcher_type(s) ==
    Bind(ident(s), LAMBDA r :
        IF r.ok THEN r ELSE delimited(s, IdentChars \cup {":", " "}, TRUE))

\* argument = alt((quoted, unquoted))
parse_argument(s) ==
    Bind(delimited(s, {"\""}, FALSE), LAMBDA r :
        IF r.ok THEN r ELSE take_while1(s, Whitespace, FALSE))

\* the matcher names Matcher::new knows, as texts
MatcherNames ==
    {<<<<"s", "t", "a", "c", "k", ".", "m", "o", "d", "u", "l", "e">>, "stack.module">>,
     <<<<"m", "o", "d", "u", "l", "e">>, "module">>,
     <<<<"s", "t", "a", "c", "k", ".", "f", "u", "n", "c", "t", "i", "o", "n">>, "stack.function">>,
     <<<<"f", "u", "n", "c", "t", "i", "o", "n">>, "function">>,
     <<<<"c", "a", "t", "e", "g", "o", "r", "y">>, "category">>,
     <<<<"s", "t", "a", "c", "k", ".", "a", "b", "s", "_", "p", "a", "t", "h">>, "stack.abs_path">>,
     <<<<"p", "a", "t", "h">>, "path">>,
     <<<<"s", "t", "a", "c", "k", ".", "p", "a", "c", "k", "a", "g", "e">>, "stack.package">>,
     <<<<"p", "a", "c", "k", "a", "g", "e">>, "package">>,
     <<<<"f", "a", "m", "i", "l", "y">>, "family">>, <<<<"a", "p", "p">>, "app">>,
     <<<<"e", "r", "r", "o", "r", ".", "t", "y", "p", "e">>, "error.type">>,
     <<<<"t", "y", "p", "e">>, "type">>,
     <<<<"e", "r", "r", "o", "r", ".", "v", "a", "l", "u", "e">>, "error.value">>,
     <<<<"v", "a", "l", "u", "e">>, "value">>,
     <<<<"e", "r", "r", "o", "r", ".", "m", "e", "c", "h", "a", "n", "i", "s", "m">>, "error.mechanism">>,
     <<<<"m", "e", "c", "h", "a", "n", "i", "s", "m">>, "mechanism">>}

NameOf(text) ==
    IF \E p \in MatcherNames : p[1] = text
        THEN (CHOOSE p \in MatcherNames : p[1] = text)[2]
    ELSE "unknown"

\* get_matcher: the offset of a caller / callee matcher, then Matcher::new
get_matcher(c, negated, ty, arg, caller, callee) ==
    MatcherNewWithCache(c, negated, NameOf(ty), arg,
                        IF caller THEN "Caller" ELSE IF callee THEN "Callee" ELSE "None")

\* frame_matcher(caller, callee): `!`? matcher_type `:` argument
frame_matcher(c, input, caller, callee) ==
    Bind(trim_start(input), LAMBDA s0 :
    Bind(char1(s0, "!").ok, LAMBDA negated :
    Bind(parse_matcher_type(IF negated THEN Tail(s0) ELSE s0), LAMBDA ty :
        IF ~ty.ok THEN [ok |-> FALSE, cache |-> c]
        ELSE IF ~char1(ty.rest, ":").ok THEN [ok |-> FALSE, cache |-> c]
        ELSE Bind(parse_argument(Tail(ty.rest)), LAMBDA arg :
                 IF ~arg.ok THEN [ok |-> FALSE, cache |-> c]
                 ELSE Bind(get_matcher(c, negated, ty.v, arg.v, caller, callee), LAMBDA made :
                          IF ~made.ok THEN [ok |-> FALSE, cache |-> made.cache]
                          ELSE [ok |-> TRUE, m |-> made.m, rest |-> arg.rest,
                                cache |-> made.cache])))))

\* caller_matcher: space0 `[` space0 frame_matcher space0 `]` space0 `|`
caller_matcher(c, input) ==
    Bind(char1(space0(input), "["), LAMBDA open :
        IF ~open.ok THEN [ok |-> FALSE, cache |-> c]
        ELSE Bind(frame_matcher(c, space0(open.rest), TRUE, FALSE), LAMBDA fm :
                 IF ~fm.ok THEN [ok |-> FALSE, cache |-> fm.cache]
                 ELSE Bind(char1(space0(fm.rest), "]"), LAMBDA close :
                          IF ~close.ok THEN [ok |-> FALSE, cache |-> fm.cache]
                          ELSE Bind(char1(space0(close.rest), "|"), LAMBDA bar :
                                   IF ~bar.ok THEN [ok |-> FALSE, cache |-> fm.cache]
                                   ELSE [ok |-> TRUE, m |-> fm.m, rest |-> bar.rest,
                                         cache |-> fm.cache]))))

\* callee_matcher: space0 `|` space0 `[` space0 frame_matcher space0 `]`
callee_matcher(c, input) ==
    Bind(char1(space0(input), "|"), LAMBDA bar :
        IF ~bar.ok THEN [ok |-> FALSE, cache |-> c]
        ELSE Bind(char1(space0(bar.rest), "["), LAMBDA open :
                 IF ~open.ok THEN [ok |-> FALSE, cache |-> c]
                 ELSE Bind(frame_matcher(c, space0(open.rest), FALSE, TRUE), LAMBDA fm :
                          IF ~fm.ok THEN [ok |-> FALSE, cache |-> fm.cache]
                          ELSE Bind(char1(space0(fm.rest), "]"), LAMBDA close :
                                   IF ~close.ok THEN [ok |-> FALSE, cache |-> fm.cache]
                                   ELSE [ok |-> TRUE, m |-> fm.m, rest |-> close.rest,
                                         cache |-> fm.cache]))))

\* many0(frame_matcher(false, false)): as many matchers as parse, in order
RECURSIVE ManyMatchers(_, _, _)
ManyMatchers(c, input, acc) ==
    Bind(frame_matcher(c, input, FALSE, FALSE), LAMBDA fm :
        IF fm.ok THEN ManyMatchers(fm.cache, fm.rest, Append(acc, fm.m))
        ELSE [v |-> acc, rest |-> input, cache |-> fm.cache])

\* matchers: opt(caller_matcher), many1(frame_matcher), opt(callee_matcher);
\* the caller and the callee matcher are pushed after the plain ones
parse_matchers(c, text) ==
    Bind(trim_start(text), LAMBDA input :
    Bind(caller_matcher(c, input), LAMBDA caller :
    Bind(ManyMatchers(caller.cache, IF caller.ok THEN caller.rest ELSE input, <<>>), LAMBDA plain :
    Bind(callee_matcher(plain.cache, plain.rest), LAMBDA callee :
        IF plain.v = <<>> THEN [ok |-> FALSE, cache |-> plain.cache]
        ELSE [ok |-> TRUE,
              v |-> plain.v \o (IF caller.ok THEN <<caller.m>> ELSE <<>>)
                            \o (IF callee.ok THEN <<callee.m>> ELSE <<>>),
              rest |-> IF callee.ok THEN callee.rest ELSE plain.rest,
              cache |-> callee.cache]))))

\* the right-hand side of a var-action: a decimal usize for min-frames and
\* max-frames, a boolean for invert-stacktrace, the identifier for category
DigitValue(d) ==
    CASE d = "0" -> 0 [] d = "1" -> 1 [] d = "2" -> 2 [] d = "3" -> 3 [] d = "4" -> 4
      [] d = "5" -> 5 [] d = "6" -> 6 [] d = "7" -> 7 [] d = "8" -> 8 [] d = "9" -> 9

RECURSIVE Decimal(_, _)
Decimal(ds, acc) == IF ds = <<>> THEN acc ELSE Decimal(Tail(ds), 10 * acc + DigitValue(Head(ds)))

var_value(var, text) ==
    CASE var \in {"MinFrames", "MaxFrames"} ->
            IF \A i \in 1 .. Len(text) : text[i] \in Digits
                THEN [ok |-> TRUE, v |-> VarInt(var, Decimal(text, 0))]
            ELSE [ok |-> FALSE]
      [] var = "InvertStacktrace" ->
            IF text \in {<<"1">>, S_yes, S_true} THEN [ok |-> TRUE, v |-> VarBool(TRUE)]
            ELSE IF text \in {<<"0">>, S_no, S_false} THEN [ok |-> TRUE, v |-> VarBool(FALSE)]
            ELSE [ok |-> FALSE]
      [] var = "Category" -> [ok |-> TRUE, v |-> VarCategory(text)]

\* var_name: the first of the four tags that matches
var_name(s) ==
    CASE tag(s, <<"m", "a", "x", "-", "f", "r", "a", "m", "e", "s">>).ok -> [ok |-> TRUE, v |-> "MaxFrames", rest |-> tag(s, <<"m", "a", "x", "-", "f", "r", "a", "m", "e", "s">>).rest]
      [] tag(s, <<"m", "i", "n", "-", "f", "r", "a", "m", "e", "s">>).ok -> [ok |-> TRUE, v |-> "MinFrames", rest |-> tag(s, <<"m", "i", "n", "-", "f", "r", "a", "m", "e", "s">>).rest]
      [] tag(s, <<"i", "n", "v", "e", "r", "t", "-", "s", "t", "a", "c", "k", "t", "r", "a", "c", "e">>).ok ->
            [ok |-> TRUE, v |-> "InvertStacktrace", rest |-> tag(s, <<"i", "n", "v", "e", "r", "t", "-", "s", "t", "a", "c", "k", "t", "r", "a", "c", "e">>).rest]
      [] tag(s, <<"c", "a", "t", "e", "g", "o", "r", "y">>).ok -> [ok |-> TRUE, v |-> "Category", rest |-> tag(s, <<"c", "a", "t", "e", "g", "o", "r", "y">>).rest]
      [] OTHER -> [ok |-> FALSE]

\* var_action: var_name space0 `=` space0 ident
var_action(s) ==
    Bind(var_name(s), LAMBDA name :
        IF ~name.ok THEN [ok |-> FALSE]
        ELSE Bind(char1(space0(name.rest), "="), LAMBDA eq :
                 IF ~eq.ok THEN [ok |-> FALSE]
                 ELSE Bind(ident(space0(eq.rest)), LAMBDA value :
                          IF ~value.ok THEN [ok |-> FALSE]
                          ELSE Bind(var_value(name.v, value.v), LAMBDA made :
                                   IF ~made.ok THEN [ok |-> FALSE]
                                   ELSE [ok |-> TRUE, v |-> made.v, rest |-> value.rest]))))

\* flag_name: the first of the four tags that matches
flag_name(s) ==
    CASE tag(s, <<"g", "r", "o", "u", "p">>).ok -> [ok |-> TRUE, v |-> "Group", rest |-> tag(s, <<"g", "r", "o", "u", "p">>).rest]
      [] tag(s, <<"a", "p", "p">>).ok -> [ok |-> TRUE, v |-> "App", rest |-> tag(s, <<"a", "p", "p">>).rest]
      [] tag(s, <<"p", "r", "e", "f", "i", "x">>).ok -> [ok |-> TRUE, v |-> "Prefix", rest |-> tag(s, <<"p", "r", "e", "f", "i", "x">>).rest]
      [] tag(s, <<"s", "e", "n", "t", "i", "n", "e", "l">>).ok -> [ok |-> TRUE, v |-> "Sentinel", rest |-> tag(s, <<"s", "e", "n", "t", "i", "n", "e", "l">>).rest]
      [] OTHER -> [ok |-> FALSE]

\* flag_action: range? flag flag_name
flag_action(s) ==
    Bind(IF char1(s, "^").ok THEN "Up" ELSE IF char1(s, "v").ok THEN "Down" ELSE "None",
         LAMBDA range :
    Bind(IF range = "None" THEN s ELSE Tail(s), LAMBDA s1 :
        IF ~(char1(s1, "+").ok \/ char1(s1, "-").ok) THEN [ok |-> FALSE]
        ELSE Bind(flag_name(Tail(s1)), LAMBDA ty :
                 IF ~ty.ok THEN [ok |-> FALSE]
                 ELSE [ok |-> TRUE, v |-> FlagAction(Head(s1) = "+", ty.v, range),
                       rest |-> ty.rest])))

\* action: preceded(space0, alt((flag_action, var_action)))
action(s) ==
    Bind(flag_action(space0(s)), LAMBDA flag : IF flag.ok THEN flag ELSE var_action(space0(s)))

\* many0(action)
RECURSIVE ManyActions(_, _)
ManyActions(input, acc) ==
    Bind(action(input), LAMBDA a :
        IF a.ok THEN ManyActions(a.rest, Append(acc, a.v)) ELSE [v |-> acc, rest |-> input])

\* actions: many1(action)
parse_actions(input) ==
    Bind(ManyActions(input, <<>>), LAMBDA many :
        IF many.v = <<>> THEN [ok |-> FALSE]
        ELSE [ok |-> TRUE, v |-> many.v, rest |-> many.rest])

\* comment: space0 `#` many0(anychar), optional; what is left after it
after_comment(s) == IF char1(space0(s), "#").ok THEN <<>> ELSE s

\* rule: all_consuming(matchers, actions, opt(comment)), then the matchers
\* are split into frame and exception matchers
parse_rule(c, input) ==
    Bind(parse_matchers(c, input), LAMBDA ms :
        IF ~ms.ok THEN [ok |-> FALSE, cache |-> ms.cache]
        ELSE Bind(parse_actions(ms.rest), LAMBDA acts :
                 IF ~acts.ok THEN [ok |-> FALSE, cache |-> ms.cache]
                 ELSE IF after_comment(acts.rest) # <<>> THEN [ok |-> FALSE, cache |-> ms.cache]
                 ELSE [ok |-> TRUE, rule |-> RuleNew(ms.v, acts.v), cache |-> ms.cache]))

\* Cache::get_or_try_insert_rule with f = parse_rule: the result and the
\* cache afterwards
get_or_try_insert_rule(c, key) ==
    IF IsSome(c.rules) THEN
        Bind(LruGet(Unwrap(c.rules), key), LAMBDA g :
            IF g.hit THEN [ok |-> TRUE, rule |-> g.v, cache |-> [c EXCEPT !.rules = Some(g.lru)]]
            ELSE Bind(parse_rule(c, key), LAMBDA r :
                     IF ~r.ok THEN [ok |-> FALSE, cache |-> r.cache]
                     ELSE [ok |-> TRUE, rule |-> r.rule,
                           cache |-> [r.cache EXCEPT
                                         !.rules = Some(LruPut(Unwrap(c.rules), key, r.rule))]]))
    ELSE parse_rule(c, key)

\* str::lines: split at `\n`, a `\r` before it dropped, no empty last line
lines(input) ==
    LET pieces == Split(input, "\n")
        kept == IF pieces[Len(pieces)] = <<>> THEN SubSeq(pieces, 1, Len(pieces) - 1) ELSE pieces
    IN [i \in 1 .. Len(kept) |->
           IF kept[i] # <<>> /\ kept[i][Len(kept[i])] = "\r"
               THEN SubSeq(kept[i], 1, Len(kept[i]) - 1)
           ELSE kept[i]]

\* a loop that leaves out the lines that are not rules
RECURSIVE ParseLoopLenient(_, _, _)
ParseLoopLenient(c, ls, all_rules) ==
    IF ls = <<>> THEN [ok |-> TRUE, enh |-> EnhancementsNew(all_rules), cache |-> c]
    ELSE Bind(trim(Head(ls)), LAMBDA line :
             IF line = <<>> \/ StartsWith(line, <<"#">>)
                 THEN ParseLoopLenient(c, Tail(ls), all_rules)
             ELSE Bind(get_or_try_insert_rule(c, line), LAMBDA r :
                      ParseLoopLenient(r.cache, Tail(ls),
                                       IF r.ok THEN Append(all_rules, r.rule) ELSE all_rules)))

\* the loop of Enhancements::parse over the lines
RECURSIVE ParseLoop(_, _, _)
ParseLoop(c, ls, all_rules) ==
    IF ls = <<>> THEN [ok |-> TRUE, enh |-> EnhancementsNew(all_rules), cache |-> c]
    ELSE Bind(trim(Head(ls)), LAMBDA line :
             IF line = <<>> \/ StartsWith(line, <<"#">>) THEN ParseLoop(c, Tail(ls), all_rules)
             ELSE Bind(get_or_try_insert_rule(c, line), LAMBDA r :
                      IF ~r.ok THEN [ok |-> FALSE, cache |-> r.cache]
                      ELSE ParseLoop(r.cache, Tail(ls), Append(all_rules, r.rule))))

\* Enhancements::parse
parse(input, c) == ParseLoop(c, lines(input), <<>>)

\* ----------------------------------------------------------- input universes

\* the sequences over S of length lo .. hi
SeqsOf(S, lo, hi) == UNION {[1 .. n -> S] : n \in lo .. hi}

M(negated, matcher_type, argument, frame_offset) ==
    MatcherNew(negated, matcher_type, argument, frame_offset).m

\* frame matchers on the frame itself, as `app:1`, `!category:a`, `function:f`
PlainMatchers ==
    {M(neg, "app", <<"1">>, "None") : neg \in BOOLEAN}
    \cup {M(neg, "category", <<"a">>, "None") : neg \in BOOLEAN}
    \cup {M(FALSE, "function", <<"f">>, "None")}

\* nothing, or a caller matcher `[ m ] |`, or a callee matcher `| [ m ]`
AdjacentMatchers ==
    {<<>>} \cup {<<M(FALSE, ty_arg[1], ty_arg[2], off)>> :
                    ty_arg \in {<<"app", <<"1">>>>, <<"category", <<"a">>>>},
                    off \in {"Caller", "Callee"}}

AppActions == {FlagAction(flag, "App", range) : flag \in BOOLEAN, range \in {"None", "Up", "Down"}}

ModifierActions == AppActions \cup {VarCategory(<<"a">>)}

\* one rule line: a plain matcher, an optional adjacent matcher, 1..MaxActions actions
WideRules ==
    {RuleNew(<<pm>> \o adj, acts) :
        pm \in PlainMatchers, adj \in AdjacentMatchers,
        acts \in SeqsOf(ModifierActions, 1, MaxActions)}

\* rule lines with an exception matcher, as `type:E app:0 +app`
ExceptionRules ==
    {RuleNew(<<M(neg, "type", <<"E">>, "None"), M(FALSE, "app", <<"0">>, "None")>>, <<a>>) :
        neg \in BOOLEAN, a \in ModifierActions}

\* a few rules to build lists of several rules from
ListRules ==
    {RuleNew(<<M(FALSE, "app", <<"0">>, "None")>>, <<FlagAction(TRUE, "App", "Up")>>),
     RuleNew(<<M(FALSE, "app", <<"1">>, "None")>>, <<FlagAction(FALSE, "App", "None")>>),
     RuleNew(<<M(FALSE, "category", <<"a">>, "None")>>, <<FlagAction(TRUE, "App", "Down")>>),
     RuleNew(<<M(TRUE, "category", <<"a">>, "None")>>, <<VarCategory(<<"a">>)>>),
     RuleNew(<<M(FALSE, "function", <<"f">>, "None")>>, <<FlagAction(FALSE, "Group", "None")>>)}

ModFrames ==
    {MkFrame(cat, Some(S_native), Some(<<"f">>), ia) :
        cat \in {None, Some(<<"a">>)}, ia \in {None, Some(TRUE), Some(FALSE)}}

NoException == [ty |-> None, value |-> None, mechanism |-> None]

ExceptionOfType(t) == [ty |-> Some(t), value |-> None, mechanism |-> None]

\* the (rule list, exception) pairs the modifier pass is run on
ModConfigs ==
    ({<<r>> : r \in WideRules} \X {NoException})
    \cup ({<<r>> : r \in ExceptionRules} \X {NoException, ExceptionOfType(<<"E">>)})
    \cup (SeqsOf(ListRules, 2, 2) \X {NoException})


\* -------------------------------------------- specification: modifier pass

InitMod ==
    /\ \E cfg \in ModConfigs :
        /\ enh = EnhancementsNew(cfg[1])
        /\ exception_data = cfg[2]
    /\ frames \in SeqsOf(ModFrames, 0, MaxFrames)
    /\ pc = "start"
    /\ cache = CacheNew(0)
    /\ pool = [ranking |-> <<>>]
    /\ log = <<>>
    /\ prev_frames = <<>>
    /\ components = <<>>
    /\ stacktrace_state = DefaultState
    /\ inp = <<>>
    /\ out = <<>>

\* a call of apply_modifications_to_frames; the caller may run it again
ApplyModifications ==
    /\ pc \in {"start", "modified"}
    /\ LET r == apply_modifications_to_frames(enh, frames, exception_data) IN
        /\ frames' = r.frames
        /\ log' = r.log
    /\ prev_frames' = frames
    /\ pc' = IF pc = "start" THEN "modified" ELSE "modified2"
    /\ UNCHANGED <<pool, cache, enh, exception_data, components, stacktrace_state, inp, out>>

NextMod == ApplyModifications

SpecMod == InitMod /\ [][NextMod]_vars

\* ---------------------------------- specification: one rule, applied twice

IdemFrames ==
    {MkFrame(cat, Some(S_native), Some(<<"f">>), Some(ia)) :
        cat \in {None, Some(<<"a">>)}, ia \in BOOLEAN}

InitIdem ==
    /\ \E r \in WideRules : enh = EnhancementsNew(<<r>>)
    /\ exception_data = NoException
    /\ frames \in SeqsOf(IdemFrames, 0, MaxIdemFrames)
    /\ pc = "start"
    /\ cache = CacheNew(0)
    /\ pool = [ranking |-> <<>>]
    /\ log = <<>>
    /\ prev_frames = <<>>
    /\ components = <<>>
    /\ stacktrace_state = DefaultState
    /\ inp = <<>>
    /\ out = <<>>

SpecIdem == InitIdem /\ [][NextMod]_vars

\* ------------------------------------------------ claims: the modifier pass

IdxSet(s) == {s[j] : j \in 1 .. Len(s)}

IsAppAction(a) == a.kind = "Flag" /\ a.ty = "App"

IsCategoryAction(a) == a.kind = "Var" /\ a.var = "Category"

AppActionsOf(rule) == {rule.actions[q] : q \in {q \in 1 .. Len(rule.actions) : IsAppAction(rule.actions[q])}}

\* the frame indices whose in_app one log entry's rule wrote
WrittenBy(e) ==
    UNION {slice_to_range_mut(a.range, Len(e.before), i) : a \in AppActionsOf(e.rule), i \in IdxSet(e.applied)}

\* C1: every eligible modifier rule is applied at exactly the indices where it
\* matches the frame list as it was before the rule wrote anything
C1_CollectThenMutate ==
    \A k \in 1 .. Len(log) :
        IdxSet(log[k].applied) =
            {i \in Range0(Len(log[k].before)) : RuleMatchesFrame(log[k].rule, log[k].before, i)}

\* a rule was applied at an index where, after its own writes, it no longer matches
C1_Witness ==
    \E k \in 1 .. Len(log) :
        /\ Len(log[k].applied) >= 2
        /\ \E i \in IdxSet(log[k].applied) : ~RuleMatchesFrame(log[k].rule, log[k].after, i)

\* C2: every frame selected by an app flag-action of a rule applied at a
\* matching index has in_app = Some(flag of an app action of the rule) and
\* in_app_last_changed = that rule, when the rule is done
C2_AppFlagRecordsRule ==
    \A k \in 1 .. Len(log) :
        \A j \in WrittenBy(log[k]) :
            /\ At(log[k].after, j).in_app \in {Some(a.flag) : a \in AppActionsOf(log[k].rule)}
            /\ At(log[k].after, j).in_app_last_changed = Some(log[k].rule)

\* the in_app half of C2 alone
C2_AppFlagWritesInApp ==
    \A k \in 1 .. Len(log) :
        \A j \in WrittenBy(log[k]) :
            At(log[k].after, j).in_app \in {Some(a.flag) : a \in AppActionsOf(log[k].rule)}

\* C3: after the modifier pass a frame has in_app_last_changed set iff some
\* rule wrote its in_app in this invocation, and then in_app is set
C3_LastChangedIffWritten ==
    pc \in {"modified", "modified2"} =>
        \A i \in Range0(Len(frames)) :
            /\ IsSome(At(frames, i).in_app_last_changed)
                    <=> (\E k \in 1 .. Len(log) : i \in WrittenBy(log[k]))
            /\ IsSome(At(frames, i).in_app_last_changed) => IsSome(At(frames, i).in_app)

InAppAndCategory(frs) == [i \in 1 .. Len(frs) |-> <<frs[i].in_app, frs[i].category>>]

\* C4: with one modifier rule, a second run of the modifier pass leaves
\* in_app and category of every frame as the first run left them
C4_Idempotent ==
    (pc = "modified2" /\ Len(enh.modifier_rules) = 1)
        => InAppAndCategory(frames) = InAppAndCategory(prev_frames)

ReadsInApp(rule) ==
    \E k \in 1 .. Len(rule.frame_matchers) : rule.frame_matchers[k].inner.kind = "InApp"

ReadsCategory(rule) ==
    \E k \in 1 .. Len(rule.frame_matchers) :
        /\ rule.frame_matchers[k].inner.kind = "Field"
        /\ rule.frame_matchers[k].inner.field = "Category"

\* no frame matcher of the rule reads a field that an action of the rule writes
SelfIndependent(rule) ==
    /\ ~(ReadsInApp(rule) /\ \E q \in 1 .. Len(rule.actions) : IsAppAction(rule.actions[q]))
    /\ ~(ReadsCategory(rule) /\ \E q \in 1 .. Len(rule.actions) : IsCategoryAction(rule.actions[q]))

\* the rule reads and writes the frame at the index only
LocalRule(rule) ==
    /\ \A k \in 1 .. Len(rule.frame_matchers) : rule.frame_matchers[k].frame_offset = "None"
    /\ \A q \in 1 .. Len(rule.actions) :
        rule.actions[q].kind = "Flag" => rule.actions[q].range = "None"

\* C4 (amended): a second run changes nothing when the one rule reads no
\* field it writes, or has neither offset matchers nor ranged actions
C4_IdempotentLocalOrIndependent ==
    (/\ pc = "modified2"
     /\ Len(enh.modifier_rules) = 1
     /\ SelfIndependent(enh.modifier_rules[1]) \/ LocalRule(enh.modifier_rules[1]))
        => InAppAndCategory(frames) = InAppAndCategory(prev_frames)

\* a rule that reads what it writes was applied again in the second run
C4_Witness ==
    /\ pc = "modified2"
    /\ Len(enh.modifier_rules) = 1
    /\ LocalRule(enh.modifier_rules[1])
    /\ ~SelfIndependent(enh.modifier_rules[1])
    /\ Len(frames) >= 2
    /\ \E k \in 1 .. Len(log) : log[k].applied # <<>>

\* ------------------------------------- specification: one flag action applied

SliceFrames == {MkFrame(None, None, None, ia) : ia \in {None, Some(TRUE), Some(FALSE)}}

InitSlice ==
    /\ inp \in [action : AppActions, idx : 0 .. (MaxSliceLen + 1)]
    /\ frames \in SeqsOf(SliceFrames, 0, MaxSliceLen)
    /\ pc = "start"
    /\ cache = CacheNew(0)
    /\ pool = [ranking |-> <<>>]
    /\ enh = EnhancementsNew(<<>>)
    /\ exception_data = NoException
    /\ log = <<>>
    /\ prev_frames = <<>>
    /\ components = <<>>
    /\ stacktrace_state = DefaultState
    /\ out = <<>>

\* a call of FlagAction::apply_modifications_to_frame(frames, idx)
ApplyFlagAction ==
    /\ pc = "start"
    /\ frames' = FlagApplyModifications(inp.action, frames, inp.idx)
    /\ prev_frames' = frames
    /\ pc' = "applied"
    /\ UNCHANGED <<pool, cache, enh, exception_data, components, stacktrace_state, log, inp, out>>

NextSlice == ApplyFlagAction

SpecSlice == InitSlice /\ [][NextSlice]_vars

\* the selection as the documentation states it: the item itself, the items
\* after it, or the items before it; nothing when that leaves the list
DocumentedSelection(range, n, idx) ==
    LET want == CASE range = "None" -> {idx}
                  [] range = "Up" -> {j \in Range0(n) : j > idx}
                  [] range = "Down" -> 0 .. (idx - 1)
    IN IF want \subseteq Range0(n) THEN want ELSE {}

\* C5: a flag action at index i writes exactly item i, the items i+1..N-1
\* (Up) or the items 0..i-1 (Down); outside the list nothing, and no other
\* item changes
C5_RangeSelection ==
    pc = "applied" =>
        /\ Len(frames) = Len(prev_frames)
        /\ \A j \in Range0(Len(frames)) :
            IF j \in DocumentedSelection(inp.action.range, Len(prev_frames), inp.idx)
                THEN At(frames, j) = [At(prev_frames, j) EXCEPT !.in_app = Some(inp.action.flag)]
            ELSE At(frames, j) = At(prev_frames, j)

\* an Up action below the top of the list wrote the frames above it
C5_Witness ==
    /\ pc = "applied"
    /\ inp.action.range = "Up"
    /\ inp.idx + 2 = Len(frames)
    /\ At(frames, inp.idx) = At(prev_frames, inp.idx)
    /\ At(frames, inp.idx + 1) # At(prev_frames, inp.idx + 1)

\* ---------------------------------------------- specification: updater pass

\* the rule an earlier modifier pass recorded on a frame
SeedRule == RuleNew(<<M(FALSE, "function", <<"f">>, "None")>>, <<FlagAction(TRUE, "App", "None")>>)

UpdFrames ==
    {MkFrame(None, Some(S_native), Some(fn), None) : fn \in {<<"f">>, <<"g">>}}
    \cup {[MkFrame(None, Some(S_native), Some(<<"f">>), Some(TRUE))
              EXCEPT !.in_app_last_changed = Some(SeedRule)]}

UpdaterActions ==
    {FlagAction(flag, "Group", range) : flag \in BOOLEAN, range \in {"None", "Up", "Down"}}
    \cup {FlagAction(TRUE, "App", "None"), FlagAction(TRUE, "Prefix", "None")}
    \cup {VarInt("MaxFrames", n) : n \in 0 .. MaxVarValue}
    \cup {VarInt("MinFrames", 1)}

UpdaterRules ==
    {RuleNew(<<M(neg, "function", <<"f">>, "None")>>, acts) :
        neg \in BOOLEAN, acts \in SeqsOf(UpdaterActions, 1, MaxUpdActions)}

InitUpd ==
    /\ \E r \in UpdaterRules : enh = EnhancementsNew(<<r>>)
    /\ frames \in SeqsOf(UpdFrames, 0, MaxFrames)
    /\ components \in SeqsOf({MkComponent(c) : c \in BOOLEAN}, 0, MaxComponents)
    /\ exception_data = NoException
    /\ stacktrace_state = DefaultState
    /\ pc = "start"
    /\ cache = CacheNew(0)
    /\ pool = [ranking |-> <<>>]
    /\ log = <<>>
    /\ prev_frames = <<>>
    /\ inp = <<>>
    /\ out = <<>>

\* a call of update_frame_components_contributions(components, frames)
UpdateComponents ==
    /\ pc = "start"
    /\ LET r == update_frame_components_contributions(enh, components, frames) IN
        /\ components' = r.components
        /\ stacktrace_state' = r.state
        /\ pc' = IF r.panicked THEN "panicked" ELSE "updated"
    /\ UNCHANGED <<pool, cache, enh, frames, exception_data, log, prev_frames, inp, out>>

NextUpd == UpdateComponents

SpecUpd == InitUpd /\ [][NextUpd]_vars

Contributing(comps) == {i \in 1 .. Len(comps) : comps[i].contributes}

\* C6: when the returned max_frames is greater than 0, at most max_frames
\* components contribute after update_frame_components_contributions
C6_AtMostMaxFrames ==
    (pc = "updated" /\ stacktrace_state.max_frames.value > 0)
        => Cardinality(Contributing(components)) <= stacktrace_state.max_frames.value

\* the trim acted: a component was ignored because of max-frames, others stay
C6_Witness ==
    /\ pc = "updated"
    /\ stacktrace_state.max_frames.value > 0
    /\ Cardinality(Contributing(components)) = stacktrace_state.max_frames.value
    /\ \E i \in 1 .. Len(components) :
        /\ IsSome(components[i].hint)
        /\ Unwrap(components[i].hint).n = stacktrace_state.max_frames.value
        /\ Unwrap(components[i].hint).n > 0

\* ------------------------------------- specification: encode, then decode

CodecMatcherArgs ==
    {<<"function", <<"f">>>>, <<"category", <<"a">>>>, <<"module", <<"m">>>>,
     <<"path", <<"p">>>>, <<"package", <<"k">>>>}
    \cup {<<"app", v>> : v \in {<<"1">>, S_yes, S_true, <<"0">>, S_no, S_false}}
    \cup {<<"family", v>> : v \in {S_native, S_javascript, S_all, S_other,
                                      S_native \o <<",">> \o S_javascript}}

CodecExceptionMatchers ==
    {<<>>, <<M(FALSE, "type", <<"E">>, "None")>>, <<M(TRUE, "value", <<"V">>, "None")>>,
     <<M(FALSE, "mechanism", <<"M">>, "None")>>}

AllFlagActions ==
    {FlagAction(flag, ty, range) :
        flag \in BOOLEAN, ty \in {"Group", "App", "Prefix", "Sentinel"},
        range \in {"None", "Up", "Down"}}

AllVarActions ==
    {VarInt("MaxFrames", n) : n \in 0 .. MaxVarValue}
    \cup {VarInt("MinFrames", 1), VarBool(TRUE), VarBool(FALSE), VarCategory(<<"a">>)}

CodecActionLists ==
    {<<a>> : a \in AllFlagActions \cup AllVarActions}
    \cup {<<FlagAction(TRUE, "App", "None"), VarInt("MaxFrames", 1)>>,
          <<VarCategory(<<"a">>), FlagAction(FALSE, "Group", "Up")>>}

\* parsed rule lines: one frame matcher, maybe an exception matcher, actions
CodecRules ==
    {RuleNew(<<M(neg, ta[1], ta[2], off)>> \o em, acts) :
        neg \in BOOLEAN, ta \in CodecMatcherArgs, off \in {"None", "Caller", "Callee"},
        em \in CodecExceptionMatchers, acts \in CodecActionLists}

CodecFrames ==
    {MkFrame(None, Some(S_native), Some(<<"f">>), None),
     MkFrame(Some(<<"a">>), Some(S_javascript), Some(<<"g">>), Some(TRUE)),
     MkFrame(None, Some(S_other), Some(<<"f">>), Some(FALSE))}

InitCodec ==
    /\ inp \in CodecRules
    /\ frames \in SeqsOf(CodecFrames, 0, MaxFrames)
    /\ out = <<>>
    /\ pc = "start"
    /\ cache = CacheNew(0)
    /\ pool = [ranking |-> <<>>]
    /\ enh = EnhancementsNew(<<>>)
    /\ exception_data = NoException
    /\ components = <<>>
    /\ stacktrace_state = DefaultState
    /\ log = <<>>
    /\ prev_frames = <<>>

\* EncodedRule::from_rule on the parsed rule, then EncodedRule::into_rule
RoundTrip ==
    /\ pc = "start"
    /\ out' = into_rule(from_rule(inp))
    /\ pc' = "decoded"
    /\ UNCHANGED <<pool, cache, enh, frames, exception_data, components, stacktrace_state, log,
                   prev_frames, inp>>

NextCodec == RoundTrip

SpecCodec == InitCodec /\ [][NextCodec]_vars

\* C7: decoding the encoding of a parsed rule gives a rule equal to it:
\* same exception matchers, frame matchers and ordered actions
C7_RuleRoundTrip ==
    pc = "decoded" => (out.ok /\ out.rule = inp)

\* C8: the decoded frame matcher matches at the same indices of the same
\* frames as the matcher that was encoded
C8_MatcherRoundTripMatches ==
    pc = "decoded" =>
        /\ out.ok
        /\ Len(out.rule.frame_matchers) = Len(inp.frame_matchers)
        /\ \A k \in 1 .. Len(inp.frame_matchers), idx \in 0 .. Len(frames) :
            matches_frame(out.rule.frame_matchers[k], frames, idx)
                = matches_frame(inp.frame_matchers[k], frames, idx)

\* --------------------------------- specification: one matcher at one index

MatchArgs ==
    {<<"app", <<"1">>>>, <<"app", S_no>>, <<"function", <<"f">>>>}
    \cup {<<"family", v>> : v \in {S_native, S_javascript, S_other, S_all, <<"x">>,
                                      S_native \o <<",">> \o S_other,
                                      <<"x">> \o <<",">> \o S_javascript,
                                      S_all \o <<",">> \o <<"x">>}}

MatchFrames ==
    {MkFrame(None, Some(fam), Some(fn), ia) :
        fam \in {S_native, S_javascript, S_other}, fn \in {<<"f">>},
        ia \in {None, Some(TRUE), Some(FALSE)}}

InitMatch ==
    /\ \E neg \in BOOLEAN, ta \in MatchArgs, off \in {"None", "Caller", "Callee"},
          idx \in 0 .. MaxFrames :
        inp = [m |-> M(neg, ta[1], ta[2], off), matcher_type |-> ta[1], argument |-> ta[2],
               idx |-> idx]
    /\ frames \in SeqsOf(MatchFrames, 0, MaxFrames)
    /\ out = <<>>
    /\ pc = "start"
    /\ cache = CacheNew(0)
    /\ pool = [ranking |-> <<>>]
    /\ enh = EnhancementsNew(<<>>)
    /\ exception_data = NoException
    /\ components = <<>>
    /\ stacktrace_state = DefaultState
    /\ log = <<>>
    /\ prev_frames = <<>>

\* a call of FrameMatcher::matches_frame(frames, idx)
Evaluate ==
    /\ pc = "start"
    /\ out' = <<matches_frame(inp.m, frames, inp.idx)>>
    /\ pc' = "evaluated"
    /\ UNCHANGED <<pool, cache, enh, frames, exception_data, components, stacktrace_state, log,
                   prev_frames, inp>>

NextMatch == Evaluate

SpecMatch == InitMatch /\ [][NextMatch]_vars

\* the family names a comma-separated pattern lists
NamedFamilies(pattern) == {Split(pattern, ",")[k] : k \in 1 .. Len(Split(pattern, ","))}

\* C9: a family matcher matches a frame exactly when the frame's family is
\* named in the pattern or the pattern contains `all`; unknown names add nothing
C9_FamilyMatcher ==
    (/\ pc = "evaluated"
     /\ inp.matcher_type = "family"
     /\ inp.m.frame_offset = "None"
     /\ ~inp.m.negated
     /\ inp.idx < Len(frames))
        => Unwrap(out) = (\/ Unwrap(At(frames, inp.idx).family) \in NamedFamilies(inp.argument)
                          \/ S_all \in NamedFamilies(inp.argument))

\* the same statement about Families::matches on the two bitfields
FamiliesAsDocumented ==
    \A ta \in MatchArgs, fam \in {S_native, S_javascript, S_other} :
        ta[1] = "family" =>
            FamiliesMatches(FamiliesNew(ta[2]), FamiliesNew(fam))
                = (fam \in NamedFamilies(ta[2]) \/ S_all \in NamedFamilies(ta[2]))

ShiftedIdx(frame_offset, idx) ==
    CASE frame_offset = "None" -> idx
      [] frame_offset = "Caller" -> idx - 1
      [] frame_offset = "Callee" -> idx + 1

\* C10: the offset shifts i to i, i-1 or i+1; outside 0..N-1 the result is
\* false whatever the negation; inside it is negated XOR the inner match, the
\* opposite of the result of the same matcher with the negation flipped
C10_OffsetThenNegation ==
    pc = "evaluated" =>
        LET j == ShiftedIdx(inp.m.frame_offset, inp.idx) IN
        IF j \notin Range0(Len(frames)) THEN Unwrap(out) = FALSE
        ELSE /\ Unwrap(out) = (inp.m.negated # InnerMatchesFrame(inp.m.inner, At(frames, j)))
             /\ Unwrap(out) = ~matches_frame([inp.m EXCEPT !.negated = ~inp.m.negated],
                                             frames, inp.idx)

\* a negated caller matcher evaluated at index 0: no caller, so no match
C10_Witness ==
    /\ pc = "evaluated"
    /\ inp.m.negated
    /\ inp.m.frame_offset = "Caller"
    /\ inp.idx = 0
    /\ Len(frames) >= 1
    /\ Unwrap(out) = FALSE

\* ------------------------------------- specification: building a rule set

\* the longest rule list one call passes in
MaxExtend == 2

\* the longest all_rules a rule set grows to
MaxRules == 4

\* a rule pushed to one partition only: updater_rules only when it is no modifier
RECURSIVE ExtendLoopElseIf(_, _)
ExtendLoopElseIf(e, iter) ==
    IF iter = <<>> THEN e
    ELSE LET rule == Head(iter)
             m == IF has_modifier_action(rule) THEN Append(e.modifier_rules, rule)
                  ELSE e.modifier_rules
             u == IF ~has_modifier_action(rule) /\ has_updater_action(rule)
                      THEN Append(e.updater_rules, rule)
                  ELSE e.updater_rules
         IN ExtendLoopElseIf([all_rules |-> Append(e.all_rules, rule),
                              modifier_rules |-> m, updater_rules |-> u], Tail(iter))

\* Extend::extend for Enhancements: rule by rule, push to the partitions
\* the rule belongs to, then to all_rules
RECURSIVE ExtendLoop(_, _)
ExtendLoop(e, iter) ==
    IF iter = <<>> THEN e
    ELSE LET rule == Head(iter)
             m == IF has_modifier_action(rule) THEN Append(e.modifier_rules, rule)
                  ELSE e.modifier_rules
             u == IF has_updater_action(rule) THEN Append(e.updater_rules, rule)
                  ELSE e.updater_rules
         IN ExtendLoop([all_rules |-> Append(e.all_rules, rule),
                        modifier_rules |-> m, updater_rules |-> u], Tail(iter))

\* Enhancements::rules: the rules of all_rules, in order
rules(e) == e.all_rules

\* Enhancements::extend_from
extend_from(e, other) == ExtendLoop(e, rules(other))

\* rules of every partition: modifier only, updater only, both
ExtRules ==
    {RuleNew(<<M(FALSE, "function", <<"f">>, "None")>>, <<VarCategory(<<"a">>)>>),
     RuleNew(<<M(FALSE, "function", <<"f">>, "None")>>, <<FlagAction(TRUE, "App", "None")>>),
     RuleNew(<<M(FALSE, "function", <<"f">>, "None")>>, <<FlagAction(FALSE, "Group", "Up")>>),
     RuleNew(<<M(FALSE, "function", <<"f">>, "None")>>, <<VarInt("MaxFrames", 1)>>),
     RuleNew(<<M(FALSE, "function", <<"f">>, "None")>>,
             <<VarCategory(<<"a">>), VarInt("MinFrames", 1)>>)}

\* Enhancements::new on a first rule list; inp keeps every rule passed in
InitExt ==
    /\ \E rs \in SeqsOf(ExtRules, 0, MaxExtend) :
        /\ enh = EnhancementsNew(rs)
        /\ inp = rs
    /\ pc = "built"
    /\ cache = CacheNew(0)
    /\ pool = [ranking |-> <<>>]
    /\ frames = <<>>
    /\ exception_data = NoException
    /\ components = <<>>
    /\ stacktrace_state = DefaultState
    /\ log = <<>>
    /\ prev_frames = <<>>
    /\ out = <<>>

\* a call of Extend::extend with a rule list
Extend ==
    /\ pc \in {"built", "extended"}
    /\ \E rs \in SeqsOf(ExtRules, 0, MaxExtend) :
        /\ Len(enh.all_rules) + Len(rs) <= MaxRules
        /\ enh' = ExtendLoop(enh, rs)
        /\ inp' = inp \o rs
    /\ pc' = "extended"
    /\ UNCHANGED <<pool, cache, frames, exception_data, components, stacktrace_state, log, prev_frames, out>>

\* a call of extend_from with another rule set
ExtendFrom ==
    /\ pc \in {"built", "extended"}
    /\ \E rs \in SeqsOf(ExtRules, 0, MaxExtend) :
        /\ Len(enh.all_rules) + Len(rs) <= MaxRules
        /\ enh' = extend_from(enh, EnhancementsNew(rs))
        /\ inp' = inp \o rs
    /\ pc' = "extended_from"
    /\ UNCHANGED <<pool, cache, frames, exception_data, components, stacktrace_state, log, prev_frames, out>>

NextExt == Extend \/ ExtendFrom

SpecExt == InitExt /\ [][NextExt]_vars

\* a rule with at least one app flag-action or category var-action
HasAppOrCategory(rule) ==
    \E k \in 1 .. Len(rule.actions) :
        IsAppAction(rule.actions[k]) \/ IsCategoryAction(rule.actions[k])

\* a rule with at least one action that is not a category var-action
HasNonCategory(rule) ==
    \E k \in 1 .. Len(rule.actions) : ~IsCategoryAction(rule.actions[k])

\* C11: after new and any extend / extend_from calls, all_rules is the
\* concatenation of every rule list passed in, modifier_rules and
\* updater_rules are its subsequences of rules with an app flag-action or
\* category var-action, resp. with an action that is no category var-action,
\* and the whole equals Enhancements::new of the concatenation
C11_ExtendIsNewOfConcat ==
    /\ enh.all_rules = inp
    /\ enh.modifier_rules = SelectSeq(inp, HasAppOrCategory)
    /\ enh.updater_rules = SelectSeq(inp, HasNonCategory)
    /\ enh = EnhancementsNew(inp)

C11_Witness ==
    /\ pc = "extended_from"
    /\ Len(enh.all_rules) = MaxRules
    /\ enh.all_rules[1] = enh.all_rules[3]
    /\ Len(enh.modifier_rules) = 3
    /\ Len(enh.updater_rules) = 2
    /\ \E k \in 1 .. Len(enh.modifier_rules) : HasNonCategory(enh.modifier_rules[k])

\* ------------------------------------------ specification: the parse caches

\* the most lines a text has
MaxTextLines == 2

RECURSIVE JoinLines(_)
JoinLines(ls) ==
    IF ls = <<>> THEN <<>>
    ELSE IF Len(ls) = 1 THEN ls[1]
    ELSE ls[1] \o <<"\n">> \o JoinLines(Tail(ls))

\* rule lines: two with the same pattern on a path and a non-path field, an
\* unknown matcher, a glob that does not build, an exception matcher
CacheLines ==
    {<<"p", "a", "t", "h", ":", "x", " ", "+", "a", "p", "p">>, <<"f", "u", "n", "c", "t", "i", "o", "n", ":", "x", " ", "+", "a", "p", "p">>, <<"z", "z", ":", "x", " ", "+", "a", "p", "p">>, <<"f", "u", "n", "c", "t", "i", "o", "n", ":", "[", " ", "+", "a", "p", "p">>,
     <<"t", "y", "p", "e", ":", "E", " ", "f", "u", "n", "c", "t", "i", "o", "n", ":", "x", " ", "-", "g", "r", "o", "u", "p">>}

CachePatterns == {<<"x">>, <<"[">>}

\* texts of rule lines, a line that does not parse and a comment line
CacheTexts ==
    {JoinLines(ls) :
        ls \in SeqsOf({<<"p", "a", "t", "h", ":", "x", " ", "+", "a", "p", "p">>,
                        <<"z", "z", ":", "x", " ", "+", "a", "p", "p">>,
                        <<"#", " ", "c">>}, 0, MaxTextLines)}

\* a Result without the cache it leaves behind
RuleResult(r) == IF r.ok THEN [ok |-> TRUE, v |-> r.rule] ELSE [ok |-> FALSE]

RegexResult(r) == IF r.ok THEN [ok |-> TRUE, v |-> r.v] ELSE [ok |-> FALSE]

ParseResult(r) == IF r.ok THEN [ok |-> TRUE, v |-> r.enh] ELSE [ok |-> FALSE]

InitCache ==
    /\ \E size \in 0 .. MaxCacheSize : cache = CacheNew(size)
    /\ pool = [ranking |-> <<>>]
    /\ pc = "new"
    /\ enh = EnhancementsNew(<<>>)
    /\ frames = <<>>
    /\ exception_data = NoException
    /\ components = <<>>
    /\ stacktrace_state = DefaultState
    /\ log = <<>>
    /\ prev_frames = <<>>
    /\ inp = <<>>
    /\ out = <<>>

\* a call of get_or_try_insert_rule; log tells whether the key was cached
GetRule ==
    \E key \in CacheLines :
        \E r \in {get_or_try_insert_rule(cache, key)} :
            /\ cache' = r.cache
            /\ out' = RuleResult(r)
            /\ inp' = [key |-> key, is_path |-> FALSE]
            /\ log' = <<IsSome(cache.rules) /\ LruIndex(Unwrap(cache.rules), key) # 0>>
            /\ pc' = "rule"
            /\ UNCHANGED <<pool, enh, frames, exception_data, components, stacktrace_state, prev_frames>>

\* a call of get_or_try_insert_regex
GetRegex ==
    \E key \in CachePatterns, is_path \in BOOLEAN :
        \E r \in {get_or_try_insert_regex(cache, key, is_path)} :
            /\ cache' = r.cache
            /\ out' = RegexResult(r)
            /\ inp' = [key |-> key, is_path |-> is_path]
            /\ log' = <<IsSome(cache.regex)
                        /\ Len(Unwrap(cache.regex).items) = Len(Unwrap(r.cache.regex).items)>>
            /\ pc' = "regex"
            /\ UNCHANGED <<pool, enh, frames, exception_data, components, stacktrace_state, prev_frames>>

\* a call of Enhancements::parse with the cache
ParseText ==
    \E text \in CacheTexts :
        \E r \in {parse(text, cache)} :
            /\ cache' = r.cache
            /\ out' = ParseResult(r)
            /\ enh' = IF r.ok THEN r.enh ELSE enh
            /\ inp' = [key |-> text, is_path |-> FALSE]
            /\ log' = <<FALSE>>
            /\ pc' = "parsed"
            /\ UNCHANGED <<pool, frames, exception_data, components, stacktrace_state, prev_frames>>

NextCache == GetRule \/ GetRegex \/ ParseText

SpecCache == InitCache /\ [][NextCache]_vars

\* C12: with a cache of any capacity and after any earlier calls, every
\* get_or_try_insert_rule, get_or_try_insert_regex and Enhancements::parse
\* call returns what the computation gives without a cache
C12_CacheTransparent ==
    /\ pc = "rule" => out = RuleResult(parse_rule(CacheNew(0), inp.key))
    /\ pc = "regex" => out = RegexResult(translate_pattern_result(inp.key, inp.is_path))
    /\ pc = "parsed" => out = ParseResult(parse(inp.key, CacheNew(0)))

C12_Witness ==
    /\ pc = "regex"
    /\ log = <<TRUE>>
    /\ out.ok
    /\ inp.is_path
    /\ IsSome(cache.regex)
    /\ Unwrap(cache.regex).cap = 2
    /\ \E i \in 1 .. Len(Unwrap(cache.regex).items) :
        Unwrap(cache.regex).items[i].k = <<inp.key, FALSE>>

\* ---------------------------- specification: the stack-trace state returned

\* the most rules of a rule list of the updater pass
MaxStateRules == 2

\* action lists that set the stack-trace variables once, twice or never
StateActionLists ==
    {<<VarInt("MaxFrames", 1)>>,
     <<VarInt("MaxFrames", 2), VarInt("MinFrames", 1)>>,
     <<VarInt("MaxFrames", 1), VarInt("MaxFrames", 2)>>,
     <<VarBool(TRUE)>>,
     <<VarCategory(<<"a">>)>>,
     <<VarInt("MinFrames", 2), VarBool(FALSE), FlagAction(FALSE, "Group", "None")>>}

StateRules ==
    {RuleNew(<<M(FALSE, "function", fn, "None")>>, acts) :
        fn \in {<<"f">>, <<"g">>}, acts \in StateActionLists}

InitState ==
    /\ \E rs \in SeqsOf(StateRules, 0, MaxStateRules) : enh = EnhancementsNew(rs)
    /\ frames \in SeqsOf({MkFrame(None, Some(S_native), Some(fn), None) : fn \in {<<"f">>, <<"g">>}},
                         0, MaxFrames)
    /\ components = [i \in 1 .. Len(frames) |-> MkComponent(TRUE)]
    /\ exception_data = NoException
    /\ stacktrace_state = DefaultState
    /\ pc = "start"
    /\ cache = CacheNew(0)
    /\ pool = [ranking |-> <<>>]
    /\ log = <<>>
    /\ prev_frames = <<>>
    /\ inp = <<>>
    /\ out = <<>>

SpecState == InitState /\ [][NextUpd]_vars

\* the var-actions on stack-trace variables one rule carries, in declaration
\* order, each with its rule
StateActionsOf(rule) ==
    LET sel == SelectSeq(rule.actions,
                         LAMBDA a : a.kind = "Var" /\ a.var # "Category")
    IN [k \in 1 .. Len(sel) |-> [a |-> sel[k], rule |-> rule]]

\* the var-actions executed for one rule: once per matching index, ascending
RECURSIVE ExecutedForRule(_, _, _)
ExecutedForRule(rule, frs, idx) ==
    IF idx >= Len(frs) THEN <<>>
    ELSE (IF RuleMatchesFrame(rule, frs, idx) THEN StateActionsOf(rule) ELSE <<>>)
             \o ExecutedForRule(rule, frs, idx + 1)

\* the var-actions executed over the rules in declaration order
RECURSIVE Executed(_, _)
Executed(rs, frs) ==
    IF rs = <<>> THEN <<>>
    ELSE ExecutedForRule(Head(rs), frs, 0) \o Executed(Tail(rs), frs)

\* the variable as its last executed var-action leaves it, or its default
LastSet(ex, var, default) ==
    LET ks == {k \in 1 .. Len(ex) : ex[k].a.var = var} IN
    IF ks = {} THEN [value |-> default, setter |-> None]
    ELSE LET k == CHOOSE k \in ks : \A j \in ks : j <= k IN
         [value |-> IF var = "InvertStacktrace" THEN ex[k].a.bool ELSE ex[k].a.int,
          setter |-> Some(ex[k].rule)]

\* C13: the returned StacktraceState holds, for every variable, the value of
\* the last var-action executed for it (rules in declaration order, indices
\* ascending, actions in declaration order) with that action's rule as the
\* setter, and the default value without a setter when none was executed
C13_LastVarActionWins ==
    pc = "updated" =>
        LET ex == Executed(SelectSeq(enh.all_rules, HasNonCategory), frames) IN
        /\ stacktrace_state.max_frames = LastSet(ex, "MaxFrames", 0)
        /\ stacktrace_state.min_frames = LastSet(ex, "MinFrames", 0)
        /\ stacktrace_state.invert_stacktrace = LastSet(ex, "InvertStacktrace", FALSE)

\* two rules set max_frames to different values, the second one last, and
\* no rule sets invert_stacktrace
C13_Witness ==
    /\ pc = "updated"
    /\ Len(enh.updater_rules) = 2
    /\ stacktrace_state.max_frames.setter = Some(enh.updater_rules[2])
    /\ stacktrace_state.max_frames.value = 2
    /\ \E k \in 1 .. Len(enh.updater_rules[1].actions) :
        enh.updater_rules[1].actions[k] = VarInt("MaxFrames", 1)
    /\ RuleMatchesFrame(enh.updater_rules[1], frames, 0)
    /\ stacktrace_state.invert_stacktrace = [value |-> FALSE, setter |-> None]
    /\ IsSome(stacktrace_state.min_frames.setter)

\* ------------------------------- specification: decoding the compact form

\* the largest version number of an encoded rule set
MaxVersion == 3

\* the most rules of an encoded rule set
MaxEncodedRules == 1

Panicked(r) == "panicked" \in DOMAIN r /\ r.panicked

\* the matchers of an encoded rule, in order, until the first one that fails
RECURSIVE DecodeMatchers(_, _)
DecodeMatchers(encoded, acc) ==
    IF encoded = <<>> THEN [ok |-> TRUE, panicked |-> FALSE, v |-> acc]
    ELSE Bind(into_matcher(Head(encoded)), LAMBDA r :
             IF Panicked(r) THEN [ok |-> FALSE, panicked |-> TRUE]
             ELSE IF ~r.ok THEN [ok |-> FALSE, panicked |-> FALSE]
             ELSE DecodeMatchers(Tail(encoded), Append(acc, r.m)))

\* the actions of an encoded rule, in order, until the first one that fails
RECURSIVE DecodeActions(_, _)
DecodeActions(encoded, acc) ==
    IF encoded = <<>> THEN [ok |-> TRUE, panicked |-> FALSE, v |-> acc]
    ELSE Bind(into_action(Head(encoded)), LAMBDA r :
             IF ~r.ok THEN [ok |-> FALSE, panicked |-> FALSE]
             ELSE DecodeActions(Tail(encoded), Append(acc, r.action)))

\* the encoded rules, in order, until the first one that fails
RECURSIVE DecodeRules(_, _)
DecodeRules(encoded, acc) ==
    IF encoded = <<>> THEN [ok |-> TRUE, panicked |-> FALSE, v |-> acc]
    ELSE Bind(DecodeMatchers(Head(encoded).matchers, <<>>), LAMBDA ms :
             IF ~ms.ok THEN ms
             ELSE Bind(DecodeActions(Head(encoded).actions, <<>>), LAMBDA acts :
                      IF ~acts.ok THEN acts
                      ELSE DecodeRules(Tail(encoded), Append(acc, RuleNew(ms.v, acts.v)))))

\* any version from 2 on accepted
from_config_structure_from_2(input) ==
    IF input.version < 2 THEN [ok |-> FALSE, panicked |-> FALSE]
    ELSE Bind(DecodeRules(input.rules, <<>>), LAMBDA all_rules :
             IF ~all_rules.ok THEN all_rules
             ELSE [ok |-> TRUE, panicked |-> FALSE, enh |-> EnhancementsNew(all_rules.v)])

\* Enhancements::from_config_structure on the deserialized
\* EncodedEnhancements(version, bases, rules): Ok(enhancements), Err, or panic
from_config_structure(input) ==
    IF input.version # 2 THEN [ok |-> FALSE, panicked |-> FALSE]
    ELSE Bind(DecodeRules(input.rules, <<>>), LAMBDA all_rules :
             IF ~all_rules.ok THEN all_rules
             ELSE [ok |-> TRUE, panicked |-> FALSE, enh |-> EnhancementsNew(all_rules.v)])

\* encoded matchers: well-formed ones, an unknown tag, a tag character of
\* several bytes, no tag at all, with and without brackets and `!`
EncodedMatchers ==
    {<<"f", "x">>, <<"!", "a", "1">>, <<"[", "f", "x", "]", "|">>, <<"|", "[", "c", "a", "]">>, <<"t", "E">>, <<"F", "N">>,
     <<"z", "x">>, <<"!", "z", "x">>, <<"[", "z", "x", "]", "|">>, <<"é", "x">>, <<"!", "é">>, <<>>, <<"!">>, <<"[", "]", "|">>}

\* encoded flag actions: every type and value index up to one past the tables
EncodedFlagActions ==
    {EncFlag(vi * Pow2(FLAG_ACTION_VALUE_OFFSET) + ti) : vi \in 0 .. 6, ti \in 0 .. 4}
    \cup {EncFlag(FLAG_ACTION_TYPE_MASK), EncFlag(FLAG_ACTION_TYPE_MASK + 1)}

EncodedVarNames == {"min-frames", "max-frames", "invert-stacktrace", "category", "frames"}

\* encoded var actions: every name, one unknown name, with every kind of value
EncodedVarActions ==
    {EncVar(name, "Int", 1, FALSE, <<>>) : name \in EncodedVarNames}
    \cup {EncVar(name, "Bool", 0, TRUE, <<>>) : name \in EncodedVarNames}
    \cup {EncVar(name, "Str", 0, FALSE, <<"a">>) : name \in EncodedVarNames}

\* encoded rules: one matcher with a good action, one action with a good matcher
EncodedRules ==
    {[matchers |-> <<m>>, actions |-> <<EncFlag(1)>>] : m \in EncodedMatchers}
    \cup {[matchers |-> <<<<"f", "x">>>>, actions |-> <<a>>] :
            a \in EncodedFlagActions \cup EncodedVarActions}

InitDecode ==
    /\ \E version \in 0 .. MaxVersion, rs \in SeqsOf(EncodedRules, 0, MaxEncodedRules) :
        inp = [version |-> version, bases |-> <<>>, rules |-> rs]
    /\ pc = "start"
    /\ cache = CacheNew(0)
    /\ pool = [ranking |-> <<>>]
    /\ enh = EnhancementsNew(<<>>)
    /\ frames = <<>>
    /\ exception_data = NoException
    /\ components = <<>>
    /\ stacktrace_state = DefaultState
    /\ log = <<>>
    /\ prev_frames = <<>>
    /\ out = <<>>

\* a call of Enhancements::from_config_structure
FromConfigStructure ==
    /\ pc = "start"
    /\ \E r \in {from_config_structure(inp)} :
        /\ out' = [ok |-> r.ok, panicked |-> r.panicked]
        /\ enh' = IF r.ok THEN r.enh ELSE enh
        /\ pc' = "from_config"
    /\ UNCHANGED <<pool, cache, frames, exception_data, components, stacktrace_state, log, prev_frames, inp>>

NextDecode == FromConfigStructure

SpecDecode == InitDecode /\ [][NextDecode]_vars

\* C14: from_config_structure succeeds only when the encoded version is 2;
\* for every other version it returns an error and produces no Enhancements,
\* whatever the encoded rules are
C14_OnlyVersion2 ==
    pc = "from_config" =>
        /\ out.ok => inp.version = 2
        /\ inp.version # 2 =>
            /\ ~out.ok
            /\ ~out.panicked
            /\ enh = EnhancementsNew(<<>>)

\* a higher version with rules that decode is refused, the same rules with
\* version 2 are accepted
C14_Witness ==
    /\ pc = "from_config"
    /\ inp.version = 3
    /\ ~out.ok
    /\ from_config_structure([inp EXCEPT !.version = 2]).ok
    /\ inp.rules # <<>>

\* a flag-action integer whose type index or value/range index is out of range
BadFlagAction(e) ==
    /\ e.kind = "FlagAction"
    /\ (e.n % 16 >= 4 \/ e.n \div 256 >= 6)

\* a var-action pair that is none of the four (name, kind of value) pairs
BadVarAction(e) ==
    /\ e.kind = "VarAction"
    /\ <<e.name, e.vkind>> \notin {<<"min-frames", "Int">>, <<"max-frames", "Int">>,
                                   <<"invert-stacktrace", "Bool">>, <<"category", "Str">>}

\* an encoded matcher without its optional brackets and its optional `!`
WithoutBracketsAndBang(encoded) ==
    LET inner == IF StartsWith(encoded, <<"|", "[">>) /\ EndsWith(encoded, <<"]">>)
                     THEN SubSeq(encoded, 3, Len(encoded) - 1)
                 ELSE IF StartsWith(encoded, <<"[">>) /\ EndsWith(encoded, <<"]", "|">>)
                     THEN SubSeq(encoded, 2, Len(encoded) - 2)
                 ELSE encoded
    IN IF StartsWith(inner, <<"!">>) THEN Tail(inner) ELSE inner

MatcherTags == {"p", "f", "m", "P", "a", "t", "v", "M", "c", "F"}

\* an encoded matcher whose tag character is not one of the tags
BadMatcherTag(encoded) ==
    /\ WithoutBracketsAndBang(encoded) # <<>>
    /\ Head(WithoutBracketsAndBang(encoded)) \notin MatcherTags

IsError(r) == ~r.ok /\ ~Panicked(r)

\* C15: decoding returns an error for a flag-action integer with type index
\* >= 4 or value/range index >= 6, for a var-action pair that is none of the
\* four pairs, and for an encoded matcher whose tag character is none of
\* p f m P a t v M c F; from_config_structure as a whole then fails
C15_DecodeErrors ==
    pc = "from_config" =>
        \A k \in 1 .. Len(inp.rules) :
            /\ \A j \in 1 .. Len(inp.rules[k].actions) :
                LET e == inp.rules[k].actions[j] IN
                (BadFlagAction(e) \/ BadVarAction(e)) =>
                    /\ IsError(into_action(e))
                    /\ inp.version = 2 => IsError(out)
            /\ \A j \in 1 .. Len(inp.rules[k].matchers) :
                LET e == inp.rules[k].matchers[j] IN
                BadMatcherTag(e) =>
                    /\ IsError(into_matcher(e))
                    /\ inp.version = 2 => IsError(out)

\* the same for a tag character of a single byte
C15_SingleByteTagErrors ==
    pc = "from_config" =>
        \A k \in 1 .. Len(inp.rules) :
            /\ \A j \in 1 .. Len(inp.rules[k].actions) :
                LET e == inp.rules[k].actions[j] IN
                (BadFlagAction(e) \/ BadVarAction(e)) =>
                    /\ IsError(into_action(e))
                    /\ inp.version = 2 => IsError(out)
            /\ \A j \in 1 .. Len(inp.rules[k].matchers) :
                LET e == inp.rules[k].matchers[j] IN
                (BadMatcherTag(e) /\ Utf8Len(Head(WithoutBracketsAndBang(e))) = 1) =>
                    /\ IsError(into_matcher(e))
                    /\ inp.version = 2 => IsError(out)

\* --------------------------------- specification: a path matcher on a frame

PathPatterns == {<<"*", "*", "/", "t", "e", "s", "t", ".", "j", "s">>, <<"/", "f", "o", "o", "/", "*", ".", "j", "s">>, <<"f", "o", "o", "/", "*">>}

PathValues ==
    {<<"h", "t", "t", "p", ":", "/", "/", "e", "x", "a", "m", "p", "l", "e", ".", "c", "o", "m", "/", "f", "o", "o", "/", "t", "e", "s", "t", ".", "j", "s">>, <<"/", "f", "o", "o", "/", "t", "e", "s", "t", ".", "j", "s">>, <<"h", "t", "t", "p", ":", "/", "/", "e", "x", "a", "m", "p", "l", "e", ".", "c", "o", "m", "/", "f", "o", "o", "/", "b", "a", "r", ".", "j", "s">>,
     <<"f", "o", "o", "/", "a", ".", "j", "s">>, <<"/", "a", ".", "j", "s">>}

\* frames with the path, the package, both or none of them present
PathFrames ==
    {[MkFrame(None, Some(S_javascript), Some(<<"f">>), None)
         EXCEPT !.path = p, !.package = k] :
        p \in {None} \cup {Some(v) : v \in PathValues},
        k \in {None, Some(<<"f", "o", "o", "/", "a", ".", "j", "s">>)}}

InitPath ==
    /\ \E neg \in BOOLEAN, ty \in {"path", "package", "stack.abs_path"}, pat \in PathPatterns :
        inp = [m |-> M(neg, ty, pat, "None"), matcher_type |-> ty, argument |-> pat, idx |-> 0]
    /\ frames \in SeqsOf(PathFrames, 1, 1)
    /\ out = <<>>
    /\ pc = "start"
    /\ cache = CacheNew(0)
    /\ pool = [ranking |-> <<>>]
    /\ enh = EnhancementsNew(<<>>)
    /\ exception_data = NoException
    /\ components = <<>>
    /\ stacktrace_state = DefaultState
    /\ log = <<>>
    /\ prev_frames = <<>>

SpecPath == InitPath /\ [][NextMatch]_vars

\* the field a path-like matcher name reads
PathFieldOf(frame, ty) == IF ty = "package" THEN frame.package ELSE frame.path

\* C16: a non-negated path or package matcher matches a frame with the field
\* present iff the pattern matches the value, or the value does not start
\* with `/` and the pattern matches `/` + value; it never matches a frame
\* without the field; `path:**/test.js` matches http://example.com/foo/test.js
\* and /foo/test.js and not http://example.com/foo/bar.js
C16_PathLikeMatch ==
    (pc = "evaluated" /\ ~inp.m.negated) =>
        LET value == PathFieldOf(frames[1], inp.matcher_type)
            pattern == translate_pattern(inp.argument, TRUE)
        IN
        /\ ~IsSome(value) => Unwrap(out) = FALSE
        /\ IsSome(value) =>
            Unwrap(out) = (\/ is_match(pattern, Unwrap(value))
                           \/ /\ Head(Unwrap(value)) # "/"
                              /\ is_match(pattern, <<"/">> \o Unwrap(value)))
        /\ (inp.matcher_type = "path" /\ inp.argument = <<"*", "*", "/", "t", "e", "s", "t", ".", "j", "s">>) =>
            /\ value = Some(<<"h", "t", "t", "p", ":", "/", "/", "e", "x", "a", "m", "p", "l", "e", ".", "c", "o", "m", "/", "f", "o", "o", "/", "t", "e", "s", "t", ".", "j", "s">>) => Unwrap(out) = TRUE
            /\ value = Some(<<"/", "f", "o", "o", "/", "t", "e", "s", "t", ".", "j", "s">>) => Unwrap(out) = TRUE
            /\ value = Some(<<"h", "t", "t", "p", ":", "/", "/", "e", "x", "a", "m", "p", "l", "e", ".", "c", "o", "m", "/", "f", "o", "o", "/", "b", "a", "r", ".", "j", "s">>) => Unwrap(out) = FALSE

\* a value that matches only with the `/` prepended
C16_Witness ==
    /\ pc = "evaluated"
    /\ ~inp.m.negated
    /\ inp.matcher_type = "path"
    /\ inp.argument = <<"/", "f", "o", "o", "/", "*", ".", "j", "s">>
    /\ frames[1].path = Some(<<"f", "o", "o", "/", "a", ".", "j", "s">>)
    /\ ~is_match(inp.m.inner.pattern, <<"f", "o", "o", "/", "a", ".", "j", "s">>)
    /\ Unwrap(out) = TRUE

\* ------------------------------ specification: an in-app rule on the frames

InAppPatterns ==
    {<<"1">>, <<"t", "r", "u", "e">>, <<"y", "e", "s">>, <<"0">>, <<"f", "a", "l", "s", "e">>, <<"n", "o">>, <<"T", "r", "u", "e">>, <<"N", "O">>, <<"2">>, <<"o", "n">>, <<"y">>}

InAppLines ==
    {<<"a", "p", "p", ":">> \o p \o act : p \in InAppPatterns, act \in {<<" ", "+", "a", "p", "p">>, <<" ", "-", "a", "p", "p">>}}

InAppFrames ==
    {MkFrame(None, Some(S_native), Some(<<"f">>), ia) : ia \in {None, Some(TRUE), Some(FALSE)}}

\* the rule line is parsed; the frames are given to the pass when it was accepted
InitInApp ==
    /\ \E line \in InAppLines :
        \E r \in {parse(line, CacheNew(0))} :
            /\ inp = [line |-> line, argument |-> SubSeq(line, 5, Len(line) - 5)]
            /\ enh = IF r.ok THEN r.enh ELSE EnhancementsNew(<<>>)
            /\ pc = IF r.ok THEN "start" ELSE "rejected"
    /\ frames \in SeqsOf(InAppFrames, 0, MaxFrames)
    /\ exception_data = NoException
    /\ cache = CacheNew(0)
    /\ pool = [ranking |-> <<>>]
    /\ log = <<>>
    /\ prev_frames = <<>>
    /\ components = <<>>
    /\ stacktrace_state = DefaultState
    /\ out = <<>>

SpecInApp == InitInApp /\ [][NextMod]_vars

InAppTrue == {<<"1">>, <<"t", "r", "u", "e">>, <<"y", "e", "s">>}

InAppFalse == {<<"0">>, <<"f", "a", "l", "s", "e">>, <<"n", "o">>}

\* the flag the line's action sets
InAppLineFlag == SubSeq(inp.line, Len(inp.line) - 3, Len(inp.line)) = <<"+", "a", "p", "p">>

\* C17: `app:P` is accepted only for P in 1, true, yes, 0, false, no; it
\* matches a frame iff the frame's in_app, unset counting as false, equals
\* the expected value, so `app:no +app` on frames with in_app unset or false
\* leaves every one of them with in_app = true
C17_InAppMatcher ==
    /\ pc # "rejected" <=> inp.argument \in InAppTrue \cup InAppFalse
    /\ pc = "modified" =>
        /\ Len(frames) = Len(prev_frames)
        /\ \A i \in 1 .. Len(frames) :
            LET before == prev_frames[i].in_app
                expected == inp.argument \in InAppTrue
            IN
            frames[i].in_app =
                IF (IsSome(before) /\ Unwrap(before) = expected) \/ (~IsSome(before) /\ ~expected)
                    THEN Some(InAppLineFlag)
                ELSE before
        /\ (/\ inp.line = <<"a", "p", "p", ":", "n", "o", " ", "+", "a", "p", "p">>
            /\ \A i \in 1 .. Len(prev_frames) : prev_frames[i].in_app \in {None, Some(FALSE)})
            => \A i \in 1 .. Len(frames) : frames[i].in_app = Some(TRUE)

\* `app:no +app` has run on a frame with in_app unset and one with in_app false
C17_Witness ==
    /\ pc = "modified"
    /\ inp.line = <<"a", "p", "p", ":", "n", "o", " ", "+", "a", "p", "p">>
    /\ Len(prev_frames) = 2
    /\ prev_frames[1].in_app = None
    /\ prev_frames[2].in_app = Some(FALSE)
    /\ frames[1].in_app = Some(TRUE)
    /\ frames[2].in_app = Some(TRUE)

\* ------------------------------- specification: rules with exception matchers

ExcMatchers ==
    {M(neg, ty, pat, "None") :
        neg \in BOOLEAN, ty \in {"type", "error.value", "mechanism"}, pat \in {<<"E">>, S_unknown}}

\* `<exception matchers> function:f +app`, then `function:f category=a`
ExcRuleLists ==
    {<<RuleNew(ems \o <<M(FALSE, "function", <<"f">>, "None")>>, <<FlagAction(TRUE, "App", "None")>>),
       RuleNew(<<M(FALSE, "function", <<"f">>, "None")>>, <<VarCategory(<<"a">>)>>)>> :
        ems \in SeqsOf(ExcMatchers, 0, 2)}

ExcData ==
    {[ty |-> t, value |-> v, mechanism |-> m] :
        t \in {None, Some(<<"E">>), Some(<<"X">>)}, v \in {None, Some(<<"E">>)},
        m \in {None, Some(S_unknown)}}

InitExc ==
    /\ \E rs \in ExcRuleLists : enh = EnhancementsNew(rs)
    /\ exception_data \in ExcData
    /\ frames \in SeqsOf({MkFrame(None, Some(S_native), Some(<<"f">>), None)}, 1, 2)
    /\ pc = "start"
    /\ cache = CacheNew(0)
    /\ pool = [ranking |-> <<>>]
    /\ log = <<>>
    /\ prev_frames = <<>>
    /\ components = <<>>
    /\ stacktrace_state = DefaultState
    /\ inp = <<>>
    /\ out = <<>>

SpecExc == InitExc /\ [][NextMod]_vars

\* the text an exception matcher of attribute ty is compared with
ExcText(ty, exc) ==
    LET attr == CASE ty = "Type" -> exc.ty
                  [] ty = "Value" -> exc.value
                  [] ty = "Mechanism" -> exc.mechanism
    IN IF attr = None THEN <<"<", "u", "n", "k", "n", "o", "w", "n", ">">> ELSE attr[1]

\* every exception matcher of the rule matches: its pattern, a literal here,
\* equals the text, XOR the negation flag
ExcEligible(rule, exc) ==
    \A k \in 1 .. Len(rule.exception_matchers) :
        LET m == rule.exception_matchers[k] IN
        m.negated # (m.raw_pattern = ExcText(m.ty, exc))

\* C18: a rule is eligible for an exception iff every exception matcher
\* matches (pattern against the selected attribute, `<unknown>` when it is
\* missing, XOR negation); without exception matchers it is eligible always;
\* the modifier pass applies no action of a rule that is not eligible
C18_ExceptionEligibility ==
    LET rule == enh.all_rules[1] IN
    /\ RuleMatchesException(rule, exception_data) <=> ExcEligible(rule, exception_data)
    /\ rule.exception_matchers = <<>> => RuleMatchesException(rule, exception_data)
    /\ pc = "modified" =>
        /\ (\E k \in 1 .. Len(log) : log[k].rule = rule) <=> ExcEligible(rule, exception_data)
        /\ \A i \in 1 .. Len(frames) :
            /\ frames[i].in_app =
                (IF ExcEligible(rule, exception_data) THEN Some(TRUE) ELSE prev_frames[i].in_app)
            /\ frames[i].category = Some(<<"a">>)

\* a rule that is eligible through the sentinel and through a negation
C18_Witness ==
    /\ pc = "modified"
    /\ Len(enh.all_rules[1].exception_matchers) = 2
    /\ exception_data.ty = None
    /\ \E k \in 1 .. 2 :
        LET m == enh.all_rules[1].exception_matchers[k] IN
        m.ty = "Type" /\ ~m.negated /\ m.raw_pattern = S_unknown
    /\ \E k \in 1 .. 2 : enh.all_rules[1].exception_matchers[k].negated
    /\ frames[1].in_app = Some(TRUE)
    /\ prev_frames[1].in_app = None

\* a rule that is not eligible, next to one that is
C18_WitnessSkipped ==
    /\ pc = "modified"
    /\ ~RuleMatchesException(enh.all_rules[1], exception_data)
    /\ frames[1].in_app = None
    /\ frames[1].category = Some(<<"a">>)

\* --------------------------- specification: category and non-frame actions

\* every action but the app flag: category, the other flags, the other variables
CatActions ==
    {VarCategory(<<"a">>), VarCategory(<<"b">>), VarInt("MinFrames", 1), VarInt("MaxFrames", 1),
     VarBool(TRUE), FlagAction(TRUE, "Group", "None"), FlagAction(FALSE, "Prefix", "Up"),
     FlagAction(TRUE, "Sentinel", "Down")}

\* `function:f <actions>`
CatRules ==
    {RuleNew(<<M(FALSE, "function", <<"f">>, "None")>>, acts) : acts \in SeqsOf(CatActions, 1, 2)}

CatFrames ==
    {MkFrame(cat, Some(S_native), Some(fn), ia) :
        cat \in {None, Some(<<"c">>)}, fn \in {<<"f">>, <<"g">>}, ia \in {None, Some(TRUE)}}

InitCat ==
    /\ \E r \in CatRules : enh = EnhancementsNew(<<r>>)
    /\ frames \in SeqsOf(CatFrames, 0, MaxFrames)
    /\ exception_data = NoException
    /\ pc = "start"
    /\ cache = CacheNew(0)
    /\ pool = [ranking |-> <<>>]
    /\ log = <<>>
    /\ prev_frames = <<>>
    /\ components = <<>>
    /\ stacktrace_state = DefaultState
    /\ inp = <<>>
    /\ out = <<>>

SpecCat == InitCat /\ [][NextMod]_vars

\* the category actions of the rule, in declaration order
CatActionsOf(rule) == SelectSeq(rule.actions, LAMBDA a : a.kind = "Var" /\ a.var = "Category")

\* C19: in the modifier pass `category=X` at a matching index i sets the
\* category of frame i and nothing else; flag actions on group, prefix and
\* sentinel and the variables min-frames, max-frames and invert-stacktrace
\* leave every frame as it was
C19_CategoryOnFrameOnly ==
    pc = "modified" =>
        LET rule == enh.all_rules[1]
            cats == CatActionsOf(rule)
        IN
        /\ Len(frames) = Len(prev_frames)
        /\ cats = <<>> => frames = prev_frames
        /\ \A i \in 1 .. Len(frames) :
            IF cats # <<>> /\ prev_frames[i].function = Some(<<"f">>)
                THEN frames[i] = [prev_frames[i] EXCEPT !.category = Some(cats[Len(cats)].str)]
            ELSE frames[i] = prev_frames[i]

\* `category=a +group` has run on a frame that matches and one that does not
C19_Witness ==
    /\ pc = "modified"
    /\ enh.all_rules[1].actions = <<VarCategory(<<"a">>), FlagAction(TRUE, "Group", "None")>>
    /\ Len(frames) = 2
    /\ prev_frames[1].function = Some(<<"g">>)
    /\ prev_frames[2].function = Some(<<"f">>)
    /\ prev_frames[2].category = Some(<<"c">>)
    /\ frames[2].category = Some(<<"a">>)
    /\ frames[1] = prev_frames[1]

\* ------------------------------------- specification: parsing a rules text

MaxParseLines == 2

\* lines that parse as a rule, with their number of matchers and of actions
GoodLines ==
    {[text |-> <<"p", "a", "t", "h", ":", "x", " ", "+", "a", "p", "p">>, kind |-> "good", nm |-> 1, na |-> 1],
     [text |-> <<"!", "t", "y", "p", "e", ":", "E", " ", "a", "p", "p", ":", "1", " ", "-", "a", "p", "p", " ", "v", "+", "a", "p", "p", " ", "#", "c">>, kind |-> "good", nm |-> 2, na |-> 2],
     [text |-> <<"[", " ", "a", "p", "p", ":", "1", " ", "]", "|", "a", "p", "p", ":", "1", " ", "|", "[", " ", "a", "p", "p", ":", "0", " ", "]", " ", "^", "-", "a", "p", "p">>, kind |-> "good", nm |-> 3, na |-> 1],
     [text |-> <<" ", "a", "p", "p", ":", "1", " ", "c", "a", "t", "e", "g", "o", "r", "y", "=", "a", "#", "c", " ">>, kind |-> "good", nm |-> 1, na |-> 1]}

\* empty lines and comment lines
SkippedLines ==
    {[text |-> t, kind |-> "skipped", nm |-> 0, na |-> 0] :
        t \in {<<>>, <<" ", " ", " ">>, <<"#", " ", "c">>, <<" ", " ", "#", "p", "a", "t", "h", ":", "x">>}}

\* an unknown matcher name, no matcher, no action, a leftover, a bad app
\* value, a caller matcher alone, a comment where the actions should be
BadLines ==
    {[text |-> t, kind |-> "bad", nm |-> 0, na |-> 0] :
        t \in {<<"z", "z", ":", "x", " ", "+", "a", "p", "p">>, <<"+", "a", "p", "p">>, <<"p", "a", "t", "h", ":", "x">>, <<"p", "a", "t", "h", ":", "x", " ", "+", "a", "p", "p", " ", "x">>, <<"a", "p", "p", ":", "2", " ", "+", "a", "p", "p">>,
               <<"[", " ", "a", "p", "p", ":", "1", " ", "]", "|", " ", "+", "a", "p", "p">>, <<"p", "a", "t", "h", ":", "x", " ", "#", " ", "c">>}}

ParseLines == GoodLines \cup SkippedLines \cup BadLines

InitParse ==
    /\ inp \in SeqsOf(ParseLines, 0, MaxParseLines)
    /\ \E size \in {0, MaxCacheSize} : cache = CacheNew(size)
    /\ pool = [ranking |-> <<>>]
    /\ pc = "start"
    /\ enh = EnhancementsNew(<<>>)
    /\ frames = <<>>
    /\ exception_data = NoException
    /\ components = <<>>
    /\ stacktrace_state = DefaultState
    /\ log = <<>>
    /\ prev_frames = <<>>
    /\ out = <<>>

\* Enhancements::parse on the lines joined by `\n`
Parse ==
    /\ pc = "start"
    /\ \E r \in {parse(JoinLines([k \in 1 .. Len(inp) |-> inp[k].text]), cache)} :
        /\ out' = <<r.ok>>
        /\ enh' = IF r.ok THEN r.enh ELSE enh
        /\ log' = IF r.ok THEN <<>> ELSE <<"error">>
        /\ cache' = r.cache
    /\ pc' = "parsed"
    /\ UNCHANGED <<pool, inp, frames, exception_data, components, stacktrace_state, prev_frames>>

NextParse == Parse

SpecParse == InitParse /\ [][NextParse]_vars

\* the lines of the given kind, in order
LinesOfKind(ls, kind) == SelectSeq(ls, LAMBDA l : l.kind = kind)

\* the lines before the first bad one
BeforeFirstBad(ls) ==
    IF \E k \in 1 .. Len(ls) : ls[k].kind = "bad"
        THEN SubSeq(ls, 1, (CHOOSE k \in 1 .. Len(ls) :
                               ls[k].kind = "bad" /\ \A j \in 1 .. (k - 1) : ls[j].kind # "bad") - 1)
    ELSE ls

\* C20: Enhancements::parse skips empty and `#` lines without an error and
\* fails for the whole text as soon as one other line is not a rule: no
\* matcher, no action, an unknown matcher name, or something left over that
\* is not a trailing `#` comment
C20_ParseAllOrNothing ==
    pc = "parsed" =>
        LET good == LinesOfKind(inp, "good") IN
        /\ out[1] <=> LinesOfKind(inp, "bad") = <<>>
        /\ out[1] =>
            /\ Len(enh.all_rules) = Len(good)
            /\ \A k \in 1 .. Len(good) :
                /\ Len(enh.all_rules[k].frame_matchers) + Len(enh.all_rules[k].exception_matchers)
                       = good[k].nm
                /\ Len(enh.all_rules[k].actions) = good[k].na
                /\ good[k].nm >= 1
                /\ good[k].na >= 1
        /\ ~out[1] => (log = <<"error">> /\ enh = EnhancementsNew(<<>>))
        /\ IsSome(cache.rules) =>
            LET items == Unwrap(cache.rules).items
                keys == {items[i].k : i \in 1 .. Len(items)}
                parsed == LinesOfKind(BeforeFirstBad(inp), "good")
                expected == {trim(parsed[k].text) : k \in 1 .. Len(parsed)}
            IN
            /\ keys \subseteq expected
            /\ Cardinality(keys) =
                   IF Cardinality(expected) <= MaxCacheSize THEN Cardinality(expected)
                   ELSE MaxCacheSize

\* a text with a skipped line and a rule line has given one rule
C20_Witness ==
    /\ pc = "parsed"
    /\ Len(inp) = 2
    /\ inp[1].kind = "skipped"
    /\ inp[2].kind = "good"
    /\ out[1]
    /\ Len(enh.all_rules) = 1

\* a text whose second line is not a rule has given an error, after the
\* first line was parsed
C20_WitnessError ==
    /\ pc = "parsed"
    /\ Len(inp) = 2
    /\ inp[1].kind = "good"
    /\ inp[2].kind = "bad"
    /\ ~out[1]
    /\ IsSome(cache.rules)
    /\ Len(Unwrap(cache.rules).items) = 1

\* ------------------------------------------------------------- ketama pool

POINTS_PER_HASH == 4

POINTS_PER_SERVER == 40

\* ranking values and key hashes are taken from 0 .. HashSpace - 1
HashSpace == 1021

MaxSeed == 1

MaxKeys == 2

MaxOps == 2

KetamaServers == {"server1", "server2", "server3"}

\* the bytes of a server name, as a number
NameNumber(key) == CASE key = "server1" -> 1 [] key = "server2" -> 2 [] key = "server3" -> 3

\* ketama_hash(Md5::digest("{key}-{point_idx}"), alignment): four bytes of the
\* digest read as one number; the digest is a function of the text only, and
\* seed picks one such function
ketama_hash(seed, key, point_idx, alignment) ==
    ((NameNumber(key) * 389 + point_idx * 97 + alignment * 53 + seed * 211) * 577) % HashSpace

\* the entries create_server_ranking pushes for keys, in the order of its loops
PushedRanks(seed, keys) ==
    [n \in 1 .. (Len(keys) * POINTS_PER_SERVER * POINTS_PER_HASH) |->
        LET idx == (n - 1) \div (POINTS_PER_SERVER * POINTS_PER_HASH)
            point_idx == ((n - 1) % (POINTS_PER_SERVER * POINTS_PER_HASH)) \div POINTS_PER_HASH
            alignment == (n - 1) % POINTS_PER_HASH
        IN [server_name |-> keys[idx + 1],
            value |-> ketama_hash(seed, keys[idx + 1], point_idx, alignment),
            index |-> idx]]

\* create_server_ranking leaving the pushed entries at the end, without sorting
create_server_ranking_unsorted(seed, keys, ranking) == ranking \o PushedRanks(seed, keys)

\* create_server_ranking: push, then a stable sort of the whole list by value
create_server_ranking(seed, keys, ranking) ==
    SortSeq(ranking \o PushedRanks(seed, keys), LAMBDA a, b : a.value < b.value)

\* KetamaPool::new
KetamaPoolNew(seed, keys) == [ranking |-> create_server_ranking(seed, keys, <<>>)]

\* KetamaPool::add_node
add_node(seed, self, server_name) ==
    [ranking |-> create_server_ranking(seed, <<server_name>>, self.ranking)]

\* a pool that drops the named server
remove_node_of_name(self, server_name) ==
    [ranking |-> SelectSeq(self.ranking, LAMBDA rank : rank.server_name # server_name)]

\* KetamaPool::remove_node: Vec::retain keeps the entries the closure is true for
remove_node(self, server_name) ==
    [ranking |-> SelectSeq(self.ranking, LAMBDA rank : rank.server_name = server_name)]

KetamaKeys == {"", "a", "organization:1", "organization:2", "z"}

\* crc32fast::hash(key), a function of the key; "z" hashes above every value
crc32fast_hash(key) ==
    CASE key = "a" -> 1
      [] key = "organization:1" -> 340
      [] key = "organization:2" -> 680
      [] key = "z" -> HashSpace

\* binary_search_by_key: Ok(idx) for any idx holding the key when there is
\* one, Err(idx) with the insertion point otherwise; both are used as idx
binary_search_by_key(ranking, key_hash) ==
    IF \E i \in 1 .. Len(ranking) : ranking[i].value = key_hash
        THEN {i - 1 : i \in {j \in 1 .. Len(ranking) : ranking[j].value = key_hash}}
    ELSE {Cardinality({j \in 1 .. Len(ranking) : ranking[j].value < key_hash})}

\* KetamaPool::get_slot with the index the binary search gave; the remainder
\* by the length panics on an empty ranking
get_slot(self, key, ranking_idx) ==
    IF Len(self.ranking) = 1 THEN [ok |-> TRUE, slot |-> 0]
    ELSE IF Len(self.ranking) = 0 THEN [ok |-> FALSE, panicked |-> TRUE]
    ELSE [ok |-> TRUE, slot |-> self.ranking[(ranking_idx % Len(self.ranking)) + 1].index]

\* KetamaPool::get_node: the ranking indexed by the slot
get_node(self, key, ranking_idx) ==
    Bind(get_slot(self, key, ranking_idx), LAMBDA slot :
        IF ~slot.ok THEN slot
        ELSE IF slot.slot >= Len(self.ranking) THEN [ok |-> FALSE, panicked |-> TRUE]
        ELSE [ok |-> TRUE, slot |-> slot.slot, node |-> self.ranking[slot.slot + 1].server_name])

\* ------------------------------------------- specification: a ketama pool

InitKetama ==
    /\ \E seed \in 0 .. MaxSeed, keys \in SeqsOf(KetamaServers, 0, MaxKeys) :
        /\ inp = [seed |-> seed, keys |-> keys]
        /\ pool = KetamaPoolNew(seed, keys)
    /\ pc = "new"
    /\ log = <<>>
    /\ out = <<>>
    /\ cache = CacheNew(0)
    /\ enh = EnhancementsNew(<<>>)
    /\ frames = <<>>
    /\ exception_data = NoException
    /\ components = <<>>
    /\ stacktrace_state = DefaultState
    /\ prev_frames = <<>>

\* a call of add_node; log holds the calls made so far
AddNode ==
    /\ Len(log) < MaxOps
    /\ \E server_name \in KetamaServers :
        /\ pool' = add_node(inp.seed, pool, server_name)
        /\ log' = Append(log, [op |-> "add_node", server_name |-> server_name])
    /\ pc' = "add_node"
    /\ UNCHANGED <<inp, out, cache, enh, frames, exception_data, components, stacktrace_state,
                   prev_frames>>

\* a call of remove_node
RemoveNode ==
    /\ Len(log) < MaxOps
    /\ \E server_name \in KetamaServers :
        /\ pool' = remove_node(pool, server_name)
        /\ log' = Append(log, [op |-> "remove_node", server_name |-> server_name])
    /\ pc' = "remove_node"
    /\ UNCHANGED <<inp, out, cache, enh, frames, exception_data, components, stacktrace_state,
                   prev_frames>>

\* a call of get_node, which calls get_slot
GetNode ==
    /\ \E key \in KetamaKeys :
        \E ranking_idx \in binary_search_by_key(pool.ranking,
                                                 IF key = "" THEN 0 ELSE crc32fast_hash(key)) :
            out' = <<[key |-> key, ranking_idx |-> ranking_idx,
                      r |-> get_node(pool, key, ranking_idx)]>>
    /\ pc' = "get_node"
    /\ UNCHANGED <<inp, pool, log, cache, enh, frames, exception_data, components,
                   stacktrace_state, prev_frames>>

NextKetama == AddNode \/ RemoveNode \/ GetNode

SpecKetama == InitKetama /\ [][NextKetama]_vars

\* how often a server was put into the pool, by new or add_node, since it
\* was last removed
RECURSIVE LiveAfter(_, _, _)
LiveAfter(n, ops, server_name) ==
    IF ops = <<>> THEN n
    ELSE LiveAfter(IF Head(ops).server_name # server_name THEN n
                   ELSE IF Head(ops).op = "add_node" THEN n + 1
                   ELSE 0, Tail(ops), server_name)

Live(server_name) ==
    LiveAfter(Cardinality({i \in 1 .. Len(inp.keys) : inp.keys[i] = server_name}), log,
              server_name)

RankCount(server_name) ==
    Cardinality({i \in 1 .. Len(pool.ranking) : pool.ranking[i].server_name = server_name})

\* C21: after any sequence of add_node / remove_node calls the ranking holds
\* POINTS_PER_SERVER * POINTS_PER_HASH entries for each time a server was put
\* into the pool and not removed since, and none for a removed server
C21_RemoveOnlyNamed ==
    \A s \in KetamaServers : RankCount(s) = POINTS_PER_SERVER * POINTS_PER_HASH * Live(s)

\* the part that holds: after remove_node(name) only entries of name are left
C21_RemoveKeepsNamed ==
    (pc = "remove_node" /\ log # <<>>) =>
        \A i \in 1 .. Len(pool.ranking) :
            pool.ranking[i].server_name = log[Len(log)].server_name

\* C22: for a pool built by KetamaPool::new(keys) and every key, get_slot is
\* an index into keys and get_node returns keys[get_slot(key)]
C22_NodeIsKeyOfSlot ==
    (pc = "get_node" /\ log = <<>> /\ out[1].r.ok) =>
        /\ out[1].r.slot \in 0 .. (Len(inp.keys) - 1)
        /\ out[1].r.node = inp.keys[out[1].r.slot + 1]

\* the part that holds: the slot is an index into keys, and it is the index
\* carried by the ranking entry the binary search chose
C22_SlotInRange ==
    (pc = "get_node" /\ log = <<>> /\ out[1].r.ok) =>
        /\ out[1].r.slot \in 0 .. (Len(inp.keys) - 1)
        /\ Len(pool.ranking) > 1 =>
            out[1].r.slot = pool.ranking[(out[1].ranking_idx % Len(pool.ranking)) + 1].index

\* ------------------- specification: the components before and after the trim

\* the components as the updater loop leaves them, before the max-frames loop
before_trim(e, comps, frs) ==
    UpdaterLoop(e.updater_rules, 0, SeedHints(comps, frs), frs, DefaultState).components

InitTrim ==
    /\ \E r \in UpdaterRules : enh = EnhancementsNew(<<r>>)
    /\ frames \in SeqsOf(UpdFrames, 0, MaxFrames)
    /\ components \in SeqsOf({MkComponent(c) : c \in BOOLEAN}, 0, MaxComponents)
    /\ exception_data = NoException
    /\ stacktrace_state = DefaultState
    /\ pc = "start"
    /\ cache = CacheNew(0)
    /\ pool = [ranking |-> <<>>]
    /\ log = <<>>
    /\ prev_frames = <<>>
    /\ inp = <<>>
    /\ out = <<>>

\* a call of update_frame_components_contributions(components, frames); inp
\* keeps the components as they were when the max-frames loop was reached
UpdateComponentsTrim ==
    /\ pc = "start"
    /\ \E r \in {update_frame_components_contributions(enh, components, frames)} :
        /\ components' = r.components
        /\ stacktrace_state' = r.state
        /\ pc' = IF r.panicked THEN "panicked" ELSE "updated"
        /\ inp' = IF r.panicked THEN <<>> ELSE <<before_trim(enh, components, frames)>>
    /\ UNCHANGED <<pool, cache, enh, frames, exception_data, log, prev_frames, out>>

NextTrim == UpdateComponentsTrim

SpecTrim == InitTrim /\ [][NextTrim]_vars

\* the contributing positions of comps that have fewer than m contributing
\* positions after them
ContributingTail(comps, m) ==
    {i \in Contributing(comps) : Cardinality({j \in Contributing(comps) : j > i}) < m}

\* the hint the trim writes for a limit m set by the rule setter (or by none)
ExpectedTrimHint(m, setter) ==
    Some([text |-> IF m = 1 THEN "ignored because only N frame is considered"
                   ELSE "ignored because only N frames are considered",
          n |-> m, rule |-> setter])

\* C23: with max_frames = M > 0 and k components contributing before the trim,
\* the last min(k, M) of them stay as they were, each earlier one gets
\* contributes = false and the "ignored because only M frame(s) ..." hint
\* naming the setter rule, and components that did not contribute are
\* unchanged; with max_frames = 0 every component is unchanged
C23_TrimKeepsTail ==
    (pc = "updated" /\ inp # <<>>) =>
        LET before == inp[1]
            m == stacktrace_state.max_frames.value
            tail == ContributingTail(before, m)
        IN /\ Len(components) = Len(before)
           /\ m = 0 => components = before
           /\ m > 0 =>
                /\ Contributing(components) = tail
                /\ \/ Cardinality(tail) = m
                   \/ Cardinality(tail) = Cardinality(Contributing(before))
                /\ \A i \in 1 .. Len(before) :
                    IF i \in Contributing(before) \ tail
                        THEN components[i] =
                                [before[i] EXCEPT
                                    !.contributes = FALSE,
                                    !.hint = ExpectedTrimHint(
                                                 m, stacktrace_state.max_frames.setter)]
                    ELSE components[i] = before[i]

\* three components contributed and the limit 1 was set by a rule: the last
\* one stays, the two before it are ignored, with the rule in their hint
C23_Witness ==
    /\ pc = "updated"
    /\ inp # <<>>
    /\ stacktrace_state.max_frames.value = 1
    /\ IsSome(stacktrace_state.max_frames.setter)
    /\ Cardinality(Contributing(inp[1])) = 3
    /\ Contributing(components) = {3}
    /\ components[1].hint = ExpectedTrimHint(1, stacktrace_state.max_frames.setter)

\* --------------- specification: the updater pass of one rule with one flag

\* frames of function f or g; in_app_last_changed is set only together with
\* in_app, as the modifier pass leaves them
FlagUpdFrames ==
    {MkFrame(None, Some(S_native), Some(fn), None) : fn \in {<<"f">>, <<"g">>}}
    \cup {[MkFrame(None, Some(S_native), Some(<<"f">>), Some(b))
              EXCEPT !.orig_in_app = ol[1], !.in_app_last_changed = ol[2]] :
            b \in BOOLEAN, ol \in {<<None, Some(SeedRule)>>, <<Some(TRUE), None>>}}

\* the most frames and components of the pass of one flag action: more frames
\* than components, so that a range reaches past the end of the components
MaxFlagUpdFrames == 3

MaxFlagUpdComponents == 2

FlagUpdRules ==
    {RuleNew(<<M(FALSE, "function", <<"f">>, "None")>>, <<a>>) : a \in AllFlagActions}

InitFlagUpd ==
    /\ \E r \in FlagUpdRules : enh = EnhancementsNew(<<r>>)
    /\ frames \in SeqsOf(FlagUpdFrames, 0, MaxFlagUpdFrames)
    /\ components \in SeqsOf({MkComponent(c) : c \in BOOLEAN}, 0, MaxFlagUpdComponents)
    /\ exception_data = NoException
    /\ stacktrace_state = DefaultState
    /\ pc = "start"
    /\ cache = CacheNew(0)
    /\ pool = [ranking |-> <<>>]
    /\ log = <<>>
    /\ prev_frames = <<>>
    /\ inp = <<>>
    /\ out = <<>>

\* a call of update_frame_components_contributions(components, frames); inp
\* keeps the components as the in-app hint loop left them, before any rule ran
UpdateComponentsFlag ==
    /\ pc = "start"
    /\ \E r \in {update_frame_components_contributions(enh, components, frames)} :
        /\ components' = r.components
        /\ stacktrace_state' = r.state
        /\ pc' = IF r.panicked THEN "panicked" ELSE "updated"
        /\ inp' = IF r.panicked THEN <<>> ELSE <<SeedHints(components, frames)>>
    /\ UNCHANGED <<pool, cache, enh, frames, exception_data, log, prev_frames, out>>

NextFlagUpd == UpdateComponentsFlag

SpecFlagUpd == InitFlagUpd /\ [][NextFlagUpd]_vars

\* the rule of the pass and its flag action
TheRule == enh.all_rules[1]

TheFlag == TheRule.actions[1]

\* component i (1-based) is paired with a frame and lies in the action's range
\* at some index where the rule matches; the range `..idx` of a `v` action is
\* empty when idx is past the end of the components
Selected(i) ==
    /\ i <= Len(frames)
    /\ \E idx \in 0 .. (Len(frames) - 1) :
        /\ RuleMatchesFrame(TheRule, frames, idx)
        /\ CASE TheFlag.range = "None" -> i - 1 = idx
             [] TheFlag.range = "Up" -> i - 1 > idx
             [] TheFlag.range = "Down" -> i - 1 < idx /\ idx <= Len(components)

SameButHint(c, b) ==
    /\ c.contributes = b.contributes
    /\ c.is_prefix_frame = b.is_prefix_frame
    /\ c.is_sentinel_frame = b.is_sentinel_frame

AppHintWritten(i) ==
    /\ Selected(i)
    /\ IF IsSome(frames[i].orig_in_app) THEN frames[i].orig_in_app # frames[i].in_app
       ELSE TheFlag.flag = inp[1][i].contributes

C25_GroupWritesOnChange ==
    (pc = "updated" /\ TheFlag.ty = "Group") =>
        /\ Len(components) = Len(inp[1])
        /\ \A i \in 1 .. Len(components) :
            /\ components[i].is_prefix_frame = inp[1][i].is_prefix_frame
            /\ components[i].is_sentinel_frame = inp[1][i].is_sentinel_frame
            /\ IF Selected(i) /\ inp[1][i].contributes # TheFlag.flag
                   THEN /\ components[i].contributes = TheFlag.flag
                        /\ components[i].hint =
                            Some([text |-> IF TheFlag.flag THEN "un-ignored by stack trace rule"
                                           ELSE "ignored by stack trace rule",
                                  n |-> 0, rule |-> Some(TheRule)])
               ELSE /\ components[i].contributes = inp[1][i].contributes
                    /\ components[i].hint = inp[1][i].hint

\* a -group rule ignored one selected component and left another selected
\* one, already not contributing, with the in-app hint it had
C25_Witness ==
    /\ pc = "updated"
    /\ TheFlag.ty = "Group"
    /\ ~TheFlag.flag
    /\ \E i, j \in 1 .. Len(components) :
        /\ Selected(i) /\ Selected(j)
        /\ inp[1][i].contributes /\ ~components[i].contributes
        /\ Unwrap(components[i].hint).text = "ignored by stack trace rule"
        /\ ~inp[1][j].contributes
        /\ IsSome(inp[1][j].hint)
        /\ components[j] = inp[1][j]

\* ------------------------ specification: two flag actions, encoded and decoded

InitFlagCodec ==
    /\ inp \in AllFlagActions \X AllFlagActions
    /\ out = <<>>
    /\ pc = "start"
    /\ frames = <<>>
    /\ cache = CacheNew(0)
    /\ pool = [ranking |-> <<>>]
    /\ enh = EnhancementsNew(<<>>)
    /\ exception_data = NoException
    /\ components = <<>>
    /\ stacktrace_state = DefaultState
    /\ log = <<>>
    /\ prev_frames = <<>>

\* EncodedAction::from_action on both actions, then into_action on both
EncodeFlagActions ==
    /\ pc = "start"
    /\ \E e1 \in {from_action(inp[1])}, e2 \in {from_action(inp[2])} :
        out' = [enc |-> <<e1, e2>>, dec |-> <<into_action(e1), into_action(e2)>>]
    /\ pc' = "decoded"
    /\ UNCHANGED <<pool, cache, enh, frames, exception_data, components, stacktrace_state, log,
                   prev_frames, inp>>

NextFlagCodec == EncodeFlagActions

SpecFlagCodec == InitFlagCodec /\ [][NextFlagCodec]_vars

\* the 0-based position of x in the sequence s
PositionIn(s, x) == (CHOOSE k \in 1 .. Len(s) : s[k] = x) - 1

\* C26: a flag action is encoded as (value_index << 8) | type_index, the
\* indices being the positions in FLAG_ACTION_VALUES and FLAG_ACTION_TYPES;
\* decoding the encoding of each of the 24 flag actions gives the action back,
\* and two distinct flag actions never get the same integer
C26_FlagActionEncoding ==
    pc = "decoded" =>
        /\ \A k \in 1 .. 2 :
            /\ out.enc[k].kind = "FlagAction"
            /\ out.enc[k].n =
                PositionIn(FLAG_ACTION_VALUES, [flag |-> inp[k].flag, range |-> inp[k].range]) * 256
                + PositionIn(FLAG_ACTION_TYPES, inp[k].ty)
            /\ out.dec[k].ok
            /\ out.dec[k].action = inp[k]
        /\ inp[1] # inp[2] => out.enc[1].n # out.enc[2].n

\* -sentinel v, the action of the largest indices, is 5 << 8 | 3 and is decoded
\* to itself next to +group, which is 0
C26_Witness ==
    /\ pc = "decoded"
    /\ inp = <<FlagAction(FALSE, "Sentinel", "Down"), FlagAction(TRUE, "Group", "None")>>
    /\ out.enc[1].n = 1283
    /\ out.enc[2].n = 0
    /\ out.dec[1].action = inp[1]

\* C27: after KetamaPool::new and after any sequence of add_node and
\* remove_node calls the ranking is sorted in non-decreasing order of value
C27_RankingSorted ==
    \A i \in 1 .. (Len(pool.ranking) - 1) : pool.ranking[i].value <= pool.ranking[i + 1].value

\* a remove_node and then an add_node were made, and the entries of two
\* servers alternate in the ranking
C27_Witness ==
    /\ pc = "add_node"
    /\ Len(log) = 2
    /\ log[1].op = "remove_node"
    /\ Len(pool.ranking) = 2 * POINTS_PER_HASH * POINTS_PER_SERVER
    /\ Cardinality({i \in 1 .. (Len(pool.ranking) - 1) :
                       pool.ranking[i].server_name # pool.ranking[i + 1].server_name}) > 2

\* the (server, index) pairs that occur in the ranking
ServerIndexPairs == {<<pool.ranking[i].server_name, pool.ranking[i].index>> :
                        i \in 1 .. Len(pool.ranking)}

OneIndexPerServer ==
    \A p, q \in ServerIndexPairs : (p[1] = q[1]) <=> (p[2] = q[2])

NoRemoveYet == \A i \in 1 .. Len(log) : log[i].op = "add_node"

\* C30: after KetamaPool::new and after any sequence of add_node calls, entries
\* of different servers carry different indices and entries of the same server
\* the same index
C30_IndexIdentifiesServer == NoRemoveYet => OneIndexPerServer

\* what holds: right after KetamaPool::new on pairwise different keys the index
\* of an entry is the position of its server in keys
C30_NewOnDistinctKeys ==
    (log = <<>> /\ \A i, j \in 1 .. Len(inp.keys) : inp.keys[i] = inp.keys[j] => i = j)
        => /\ OneIndexPerServer
           /\ \A p \in ServerIndexPairs : inp.keys[p[2] + 1] = p[1]

\* the same with every server put into the pool once only: pairwise different
\* keys, and add_node only for servers that are not in the pool
C30_IndexIdentifiesServerPutOnce ==
    (NoRemoveYet /\ \A s \in KetamaServers : Live(s) <= 1) => OneIndexPerServer

\* ------------ specification: the updater pass under two exception data values

\* `<exception matchers> function:f -group min-frames=1`
ExcUpdRules ==
    {RuleNew(ems \o <<M(FALSE, "function", <<"f">>, "None")>>,
             <<FlagAction(FALSE, "Group", "None"), VarInt("MinFrames", 1)>>) :
        ems \in SeqsOf(ExcMatchers, 0, 1)}

\* inp keeps the components handed to both runs
InitExcUpd ==
    /\ \E r \in ExcUpdRules : enh = EnhancementsNew(<<r>>)
    /\ exception_data \in ExcData
    /\ frames \in SeqsOf({MkFrame(None, Some(S_native), Some(fn), None) :
                             fn \in {<<"f">>, <<"g">>}}, 1, 2)
    /\ components \in SeqsOf({MkComponent(c) : c \in BOOLEAN}, 0, 2)
    /\ inp = <<components>>
    /\ stacktrace_state = DefaultState
    /\ pc = "start"
    /\ cache = CacheNew(0)
    /\ pool = [ranking |-> <<>>]
    /\ log = <<>>
    /\ prev_frames = <<>>
    /\ out = <<>>

\* the first call of update_frame_components_contributions(components, frames);
\* out keeps what it gave and the exception data of the event it was made for
UpdateComponentsFirst ==
    /\ pc = "start"
    /\ \E r \in {update_frame_components_contributions(enh, components, frames)} :
        /\ components' = r.components
        /\ stacktrace_state' = r.state
        /\ out' = [components |-> r.components, state |-> r.state,
                   exception_data |-> exception_data]
    /\ pc' = "updated"
    /\ UNCHANGED <<pool, cache, enh, frames, exception_data, log, prev_frames, inp>>

\* another event: other exception data, the same frames and components
NextEvent ==
    /\ pc = "updated"
    /\ exception_data' \in ExcData
    /\ components' = inp[1]
    /\ stacktrace_state' = DefaultState
    /\ pc' = "next event"
    /\ UNCHANGED <<pool, cache, enh, frames, log, prev_frames, inp, out>>

\* the call of update_frame_components_contributions for the second event
UpdateComponentsSecond ==
    /\ pc = "next event"
    /\ \E r \in {update_frame_components_contributions(enh, components, frames)} :
        /\ components' = r.components
        /\ stacktrace_state' = r.state
    /\ pc' = "second"
    /\ UNCHANGED <<pool, cache, enh, frames, exception_data, log, prev_frames, inp, out>>

NextExcUpd == UpdateComponentsFirst \/ NextEvent \/ UpdateComponentsSecond

SpecExcUpd == InitExcUpd /\ [][NextExcUpd]_vars

\* C28: the updater pass applies the rule at every index where its frame
\* matchers match, whether or not its exception matchers match the exception
\* data, so two runs on the same frames and components give the same
\* components and the same StacktraceState for any two exception data values
C28_UpdaterIgnoresException ==
    /\ pc \in {"updated", "second"} =>
        /\ Len(components) = Len(inp[1])
        /\ \A i \in 1 .. Len(components) :
            components[i].contributes = (inp[1][i].contributes /\ ~Selected(i))
        /\ stacktrace_state.min_frames.value =
            IF \E idx \in 0 .. (Len(frames) - 1) : RuleMatchesFrame(TheRule, frames, idx)
                THEN 1 ELSE 0
    /\ pc = "second" =>
        /\ components = out.components
        /\ stacktrace_state = out.state

\* the rule was applied in two runs, one for exception data its exception
\* matcher matches and one for exception data it does not match
C28_Witness ==
    /\ pc = "second"
    /\ RuleMatchesException(TheRule, out.exception_data)
    /\ ~RuleMatchesException(TheRule, exception_data)
    /\ stacktrace_state.min_frames.setter = Some(TheRule)
    /\ \E i \in 1 .. Len(components) :
        /\ inp[1][i].contributes
        /\ ~components[i].contributes
        /\ Unwrap(components[i].hint).rule = Some(TheRule)

\* --------------------- specification: the cache, with the calls that were made

\* get_or_try_insert_rule reaches a call of f: there is no cache, or
\* cache.get(key) is None
rule_f_called(c, key) == ~IsSome(c.rules) \/ ~LruGet(Unwrap(c.rules), key).hit

\* get_or_try_insert_regex reaches a call of f
regex_f_called(c, key, is_path) ==
    ~IsSome(c.regex) \/ ~LruGet(Unwrap(c.regex), <<key, is_path>>).hit

\* the last call and the one before it
LastTwo(calls, call) == IF calls = <<>> THEN <<call>> ELSE <<calls[Len(calls)], call>>

InitCacheKeys ==
    /\ \E size \in 0 .. MaxCacheSize : cache = CacheNew(size)
    /\ pool = [ranking |-> <<>>]
    /\ pc = "new"
    /\ enh = EnhancementsNew(<<>>)
    /\ frames = <<>>
    /\ exception_data = NoException
    /\ components = <<>>
    /\ stacktrace_state = DefaultState
    /\ log = <<>>
    /\ prev_frames = <<>>
    /\ inp = <<>>
    /\ out = <<>>

\* a call of get_or_try_insert_rule; inp keeps the cache as it was before the
\* call, log the last two calls: key, Ok or Err, and whether f was called
CallRule ==
    \E key \in CacheLines :
        \E r \in {get_or_try_insert_rule(cache, key)} :
            /\ cache' = r.cache
            /\ out' = RuleResult(r)
            /\ inp' = [before |-> cache]
            /\ log' = LastTwo(log, [kind |-> "rule", key |-> key, ok |-> r.ok,
                                    f_called |-> rule_f_called(cache, key)])
            /\ pc' = "rule"
            /\ UNCHANGED <<pool, enh, frames, exception_data, components, stacktrace_state,
                           prev_frames>>

\* a call of get_or_try_insert_regex
CallRegex ==
    \E key \in CachePatterns, is_path \in BOOLEAN :
        \E r \in {get_or_try_insert_regex(cache, key, is_path)} :
            /\ cache' = r.cache
            /\ out' = RegexResult(r)
            /\ inp' = [before |-> cache]
            /\ log' = LastTwo(log, [kind |-> "regex", key |-> <<key, is_path>>, ok |-> r.ok,
                                    f_called |-> regex_f_called(cache, key, is_path)])
            /\ pc' = "regex"
            /\ UNCHANGED <<pool, enh, frames, exception_data, components, stacktrace_state,
                           prev_frames>>

NextCacheKeys == CallRule \/ CallRegex

SpecCacheKeys == InitCacheKeys /\ [][NextCacheKeys]_vars

\* the keys of an optional LRU cache
CachedKeys(lru) ==
    IF IsSome(lru) THEN {Unwrap(lru).items[i].k : i \in 1 .. Len(Unwrap(lru).items)} ELSE {}

\* the cache the call of the given kind works on
CacheOf(kind, c) == IF kind = "rule" THEN c.rules ELSE c.regex

WithinCapacity(lru) == IsSome(lru) => Len(Unwrap(lru).items) <= Unwrap(lru).cap

\* C29: when f fails the call returns the error and inserts nothing, so the
\* cached keys are as before and do not hold the key; a later call with the
\* same key calls f again; a call that finds its key cached does not call f;
\* neither cache holds more entries than its capacity
C29_FailedComputationNotCached ==
    /\ WithinCapacity(cache.rules)
    /\ WithinCapacity(cache.regex)
    /\ pc \in {"rule", "regex"} =>
        LET call == log[Len(log)]
            before == CachedKeys(CacheOf(call.kind, inp.before))
            after == CachedKeys(CacheOf(call.kind, cache))
        IN /\ out.ok = call.ok
           /\ ~call.ok => (call.f_called /\ after = before /\ call.key \notin after)
           /\ call.key \in before => (~call.f_called /\ call.ok /\ after = before)
           /\ (call.ok /\ call.f_called /\ IsSome(CacheOf(call.kind, cache)))
                => call.key \in after
           /\ (Len(log) = 2 /\ log[1].kind = call.kind /\ log[1].key = call.key /\ ~log[1].ok)
                => call.f_called

\* the regex cache is full, and a pattern whose computation failed was asked
\* for again: f was called again and the two cached keys are still there
C29_Witness ==
    /\ pc = "regex"
    /\ IsSome(cache.regex)
    /\ Len(log) = 2
    /\ log[1].kind = "regex"
    /\ log[1] = log[2]
    /\ ~log[2].ok
    /\ log[2].f_called
    /\ Len(Unwrap(cache.regex).items) = MaxCacheSize
    /\ Unwrap(cache.regex).cap = MaxCacheSize
    /\ CachedKeys(cache.regex) = CachedKeys(inp.before.regex)

====
